---- MODULE Spec2Model ----
(***************************************************************************)
(* Model of scripts/make_apng.py (with the helpers it imports from         *)
(* scripts/image_utils.py): the sprite-sheet cutter, the frame aligner,    *)
(* the timing engine and the APNG assembler.                               *)
(*                                                                         *)
(* One run of the program is one call of a function.  `cmd` names the      *)
(* function, `args` holds its arguments, `locals` its local variables,     *)
(* `pc` its position, `fs` what it has written to the file system,         *)
(* `stderr` what it has reported, `ret` its return value and `exit_code`   *)
(* how the process ended.                                                  *)
(*                                                                         *)
(* Images are records [w, h, px] with px a function from <<x, y>> to an    *)
(* RGBA pixel <<r, g, b, a>>.  Python's None is the empty tuple.           *)
(* Floating-point weights are carried as exact integer numerators over a   *)
(* common denominator; cos() is a fixed-point series at scale CosScale.    *)
(* The Gaussian feathering of alpha (feather_radius > 0) is outside the    *)
(* model: every call uses the default feather_radius = 0.                  *)
(***************************************************************************)
EXTENDS Integers, Sequences, FiniteSets, TLC

VARIABLES cmd, args, locals, pc, fs, stderr, ret, exit_code

vars == <<cmd, args, locals, pc, fs, stderr, ret, exit_code>>

----------------------------------------------------------------------------
(* Bounds of the model *)

MaxW == 2
MaxH == 2
MaxTimingFrames == 5
MaxTotalMs == 250
MaxAlignFrames == 2
MaxGridCols == 2
MaxGridRows == 2
MaxCellSide == 2
MaxCutCols == 2
MaxCutRows == 2
MaxCombineFrames == 5

----------------------------------------------------------------------------
(* Generic helpers *)

None == <<>>

Max(a, b) == IF a >= b THEN a ELSE b

Min(a, b) == IF a <= b THEN a ELSE b

Abs(a) == IF a >= 0 THEN a ELSE 0 - a

RECURSIVE Sum(_)
Sum(s) == IF s = <<>> THEN 0 ELSE Head(s) + Sum(Tail(s))

SetMax(S) == CHOOSE m \in S : \A k \in S : k <= m

SetMin(S) == CHOOSE m \in S : \A k \in S : m <= k

(* Python's range(start, stop, step) for step > 0, as a sequence *)
Range(start, stop, step) ==
    IF stop <= start THEN <<>>
    ELSE [k \in 1..(((stop - start - 1) \div step) + 1) |-> start + (k - 1) * step]

(* sorted(s)[k] for a sequence of integers s and 0 <= k < Len(s) *)
SortedAt(s, k) ==
    CHOOSE v \in {s[j] : j \in 1..Len(s)} :
        /\ Cardinality({j \in 1..Len(s) : s[j] < v}) <= k
        /\ k < Cardinality({j \in 1..Len(s) : s[j] <= v})

(* Python's int() of the rational p / q (q > 0): truncation toward zero *)
IntTrunc(p, q) == IF p >= 0 THEN p \div q ELSE 0 - ((0 - p) \div q)

----------------------------------------------------------------------------
(* Images *)

Coords(w, h) == (0..(w - 1)) \X (0..(h - 1))

MkImage(w, h, f) == [w |-> w, h |-> h, px |-> f]

Solid(w, h, p) == MkImage(w, h, [c \in Coords(w, h) |-> p])

(* Image.crop((left, upper, right, lower)) for a box inside the image *)
Crop(img, box) ==
    MkImage(box[3] - box[1], box[4] - box[2],
            [c \in Coords(box[3] - box[1], box[4] - box[2]) |->
                img.px[<<c[1] + box[1], c[2] + box[2]>>]])

(* Image.getbbox() of a mask given as the set of its non-zero coordinates *)
GetBBox(nonzero) ==
    IF nonzero = {} THEN None
    ELSE <<SetMin({c[1] : c \in nonzero}), SetMin({c[2] : c \in nonzero}),
           SetMax({c[1] : c \in nonzero}) + 1, SetMax({c[2] : c \in nonzero}) + 1>>

SAMPLES_PER_EDGE == 10

COLOR_THRESHOLD == 30

ALPHA_FOREGROUND == 128

ALPHA_TRANSPARENCY == 250

(* _get_bg_color: per-channel median of pixels sampled along the four edges *)
EdgeSamples(img) ==
    LET step_x == Max(1, img.w \div SAMPLES_PER_EDGE)
        step_y == Max(1, img.h \div SAMPLES_PER_EDGE)
        xs == Range(0, img.w, step_x)
        ys == Range(step_y, img.h - step_y, step_y)
        horiz == [k \in 1..(2 * Len(xs)) |->
                    IF k % 2 = 1 THEN img.px[<<xs[(k + 1) \div 2], 0>>]
                    ELSE img.px[<<xs[k \div 2], img.h - 1>>]]
        vert == [k \in 1..(2 * Len(ys)) |->
                    IF k % 2 = 1 THEN img.px[<<0, ys[(k + 1) \div 2]>>]
                    ELSE img.px[<<img.w - 1, ys[k \div 2]>>]]
    IN  horiz \o vert

(* lines 47-53: sorted(channel)[len // 2] of each colour channel *)
MedianColor(pixels) ==
    LET n == Len(pixels)
        chan(k) == [j \in 1..n |-> pixels[j][k]]
    IN  IF n = 0 THEN <<0, 0, 0>>
        ELSE <<SortedAt(chan(1), n \div 2), SortedAt(chan(2), n \div 2),
               SortedAt(chan(3), n \div 2)>>

_get_bg_color(img) == MedianColor(EdgeSamples(img))

(* _has_transparency: the minimum alpha is below 250 *)
_has_transparency(img) ==
    \E c \in Coords(img.w, img.h) : img.px[c][4] < ALPHA_TRANSPARENCY

(* the "diff" image of _get_content_bbox / _remove_bg: the largest         *)
(* per-channel absolute distance of a pixel from the background colour     *)
ColorDistance(p, bg) ==
    Max(Max(Abs(p[1] - bg[1]), Abs(p[2] - bg[2])), Abs(p[3] - bg[3]))

(* the pixels the classifier keeps: alpha >= 128 when the image has        *)
(* transparency, else diff >= color_threshold                              *)
ColorMaskHit(d, color_threshold) == d >= color_threshold

ForegroundMask(img, color_threshold) ==
    IF _has_transparency(img)
    THEN {c \in Coords(img.w, img.h) : img.px[c][4] >= ALPHA_FOREGROUND}
    ELSE LET bg == _get_bg_color(img)
         IN  {c \in Coords(img.w, img.h) :
                ColorMaskHit(ColorDistance(img.px[c], bg), color_threshold)}

_get_content_bbox(img) == GetBBox(ForegroundMask(img, COLOR_THRESHOLD))

(* _remove_bg with feather_radius = 0 *)
PutAlpha(img, fg) ==
    MkImage(img.w, img.h,
        [c \in Coords(img.w, img.h) |->
            <<img.px[c][1], img.px[c][2], img.px[c][3], IF c \in fg THEN 255 ELSE 0>>])

_remove_bg(img) ==
    IF _has_transparency(img) THEN img
    ELSE PutAlpha(img, ForegroundMask(img, COLOR_THRESHOLD))

----------------------------------------------------------------------------
(* Timing engine *)

Curves == {"uniform", "ease-in", "ease-out", "ease-in-out", "bounce"}

MIN_FRAME_MS == 10

CosScale == 10000

PiScaled == 31416

(* cos(x) * CosScale for 0 <= x <= pi/2, x given as x * CosScale *)
CosQuadrant(x) ==
    LET x2 == (x * x) \div CosScale
        t1 == x2 \div 2
        t2 == (t1 * x2) \div (12 * CosScale)
        t3 == (t2 * x2) \div (30 * CosScale)
        t4 == (t3 * x2) \div (56 * CosScale)
    IN  CosScale - t1 + t2 - t3 + t4

(* math.cos(math.pi * tn / td) * CosScale for 0 <= tn <= td *)
CosPi(tn, td) ==
    IF 2 * tn = td THEN 0
    ELSE IF 2 * tn < td THEN CosQuadrant((PiScaled * tn) \div td)
    ELSE 0 - CosQuadrant((PiScaled * (td - tn)) \div td)

(* t_values[i] = i / (num_frames - 1), or 0.5 for a single frame, as the   *)
(* fraction TNum / TDen (i counts from 0)                                  *)
TNum(i, num_frames) == IF num_frames > 1 THEN i ELSE 1

TDen(num_frames) == IF num_frames > 1 THEN num_frames - 1 ELSE 2

(* weights[i] as an integer numerator; every weight of one list has the    *)
(* same denominator (1, 10 * TDen or 10 * CosScale), which cancels in      *)
(* w / total_weight                                                        *)
Weight(i, num_frames, curve) ==
    LET tn == TNum(i, num_frames)
        td == TDen(num_frames)
    IN  CASE curve = "ease-in" -> 11 * td - 10 * tn
          [] curve = "ease-out" -> 10 * tn + td
          [] curve = "ease-in-out" -> 6 * CosScale - 5 * CosPi(tn, td)
          [] curve = "bounce" -> 6 * CosScale + 5 * CosPi(tn, td)
          [] OTHER -> 1

Weights(num_frames, curve) ==
    [k \in 1..num_frames |-> Weight(k - 1, num_frames, curve)]

(* round(total_ms * w / total_weight), halves up *)
ShareRounded(total_ms, w, total_weight) == (2 * total_ms * w + total_weight) \div (2 * total_weight)

(* int(total_ms * w / total_weight) *)
Share(total_ms, w, total_weight) == IntTrunc(total_ms * w, total_weight)

LastDurationNoClamp(total_ms, others) == total_ms - others

(* durations[-1] = max(10, total_ms - sum(durations[:-1])) *)
LastDuration(total_ms, others) == Max(MIN_FRAME_MS, total_ms - others)

_make_timing_list(num_frames, total_ms, curve) ==
    IF num_frames <= 0 THEN <<>>
    ELSE LET weights == Weights(num_frames, curve)
             total_weight == Sum(weights)
             durations == [k \in 1..num_frames |->
                             Max(MIN_FRAME_MS, Share(total_ms, weights[k], total_weight))]
         IN  [k \in 1..num_frames |->
                IF k < num_frames THEN durations[k]
                ELSE LastDuration(total_ms, Sum(SubSeq(durations, 1, num_frames - 1)))]

----------------------------------------------------------------------------
(* State shared by every run *)

NoFiles == [out_dir |-> FALSE, files |-> <<>>]

Idle ==
    /\ locals = None
    /\ fs = NoFiles
    /\ stderr = <<>>
    /\ ret = None
    /\ exit_code = None

----------------------------------------------------------------------------
(* A call of _make_timing_list *)

TimingInit ==
    /\ cmd = "_make_timing_list"
    /\ pc = "call"
    /\ args \in [num_frames : 1..MaxTimingFrames, total_ms : 1..MaxTotalMs, curve : Curves]
    /\ Idle

CallMakeTimingList ==
    /\ cmd = "_make_timing_list"
    /\ pc = "call"
    /\ ret' = _make_timing_list(args.num_frames, args.total_ms, args.curve)
    /\ pc' = "return"
    /\ UNCHANGED <<cmd, args, locals, fs, stderr, exit_code>>

TimingNext == CallMakeTimingList

SpecTiming == TimingInit /\ [][TimingNext]_vars

----------------------------------------------------------------------------
(* A call of _get_content_bbox *)

PxBlack == <<0, 0, 0, 255>>

PxNear == <<30, 0, 0, 255>>

PxLight == <<200, 200, 200, 255>>

PxClear == <<200, 200, 200, 0>>

Palette == {PxBlack, PxNear, PxLight, PxClear}

Images(maxw, maxh) ==
    UNION {{MkImage(w, h, f) : f \in [Coords(w, h) -> Palette]} :
              w \in 1..maxw, h \in 1..maxh}

BBoxInit ==
    /\ cmd = "_get_content_bbox"
    /\ pc = "call"
    /\ args \in {[img |-> i] : i \in Images(MaxW, MaxH)}
    /\ Idle

CallGetContentBBox ==
    /\ cmd = "_get_content_bbox"
    /\ pc = "call"
    /\ ret' = _get_content_bbox(args.img)
    /\ pc' = "return"
    /\ UNCHANGED <<cmd, args, locals, fs, stderr, exit_code>>

BBoxNext == CallGetContentBBox

SpecBBox == BBoxInit /\ [][BBoxNext]_vars

----------------------------------------------------------------------------
(* _detect_grid *)

GRID_THRESHOLD == 30

(* _is_bg_pixel *)
_is_bg_pixel(p, bg) ==
    /\ Abs(p[1] - bg[1]) <= GRID_THRESHOLD
    /\ Abs(p[2] - bg[2]) <= GRID_THRESHOLD
    /\ Abs(p[3] - bg[3]) <= GRID_THRESHOLD

(* bg_count / length > 0.9 *)
DividerShare(bg_count, length) == 10 * bg_count > 9 * length

_row_is_divider(img, bg, y) ==
    DividerShare(Cardinality({x \in 0..(img.w - 1) : _is_bg_pixel(img.px[<<x, y>>], bg)}),
                 img.w)

_col_is_divider(img, bg, x) ==
    DividerShare(Cardinality({y \in 0..(img.h - 1) : _is_bg_pixel(img.px[<<x, y>>], bg)}),
                 img.h)

CountEveryContentFlag(flags, n) == Cardinality({k \in 0..(n - 1) : ~flags[k]})

(* _count_segments: the number of maximal runs of non-divider flags;       *)
(* flags is indexed from 0 to n - 1                                        *)
_count_segments(flags, n) ==
    Cardinality({k \in 0..(n - 1) : ~flags[k] /\ (k = 0 \/ flags[k - 1])})

(* lines 198-227: the divider scan against the background colour bg *)
GridOnBackground(img, bg) ==
    LET row_flags == [y \in 0..(img.h - 1) |-> _row_is_divider(img, bg, y)]
        col_flags == [x \in 0..(img.w - 1) |-> _col_is_divider(img, bg, x)]
        detected_rows == _count_segments(row_flags, img.h)
        detected_cols == _count_segments(col_flags, img.w)
    IN  IF detected_rows = 0 \/ detected_cols = 0 THEN None
        ELSE <<detected_cols, detected_rows>>

_detect_grid(img) == GridOnBackground(img, _get_bg_color(img))

(* a synthetic sheet: cols x rows solid cells of cell_w x cell_h pixels on *)
(* a white background, `gap` background pixels between neighbouring cells  *)
(* and `margin` background pixels around the grid; the cell colours        *)
(* alternate between two colours at distance `tone` and `tone` + 20 from   *)
(* the background                                                          *)
SheetBackground == <<255, 255, 255, 255>>

SheetW(l) == 2 * l.margin + l.cols * l.cell_w + (l.cols - 1) * l.gap

SheetH(l) == 2 * l.margin + l.rows * l.cell_h + (l.rows - 1) * l.gap

(* the cell index 0 .. n-1 a coordinate falls into along one axis, or -1 *)
CellAt(v, margin, side, gap, n) ==
    LET u == v - margin
    IN  IF u < 0 \/ u >= n * side + (n - 1) * gap THEN 0 - 1
        ELSE IF u % (side + gap) < side THEN u \div (side + gap)
        ELSE 0 - 1

SyntheticSheet(l) ==
    MkImage(SheetW(l), SheetH(l),
        [c \in Coords(SheetW(l), SheetH(l)) |->
            LET col == CellAt(c[1], l.margin, l.cell_w, l.gap, l.cols)
                row == CellAt(c[2], l.margin, l.cell_h, l.gap, l.rows)
                shade == 255 - l.tone - 20 * ((col + row) % 2)
            IN  IF col < 0 \/ row < 0 THEN SheetBackground
                ELSE <<shade, shade, 255, 255>>])

SheetLayouts ==
    [cols : 1..MaxGridCols, rows : 1..MaxGridRows,
     cell_w : 1..MaxCellSide, cell_h : 1..MaxCellSide,
     gap : {0, 1}, margin : {0, 1, 5}, tone : {30, 31}]

GridInit ==
    /\ cmd = "_detect_grid"
    /\ pc = "call"
    /\ args \in {[img |-> SyntheticSheet(l), layout |-> l] : l \in SheetLayouts}
    /\ Idle

CallDetectGrid ==
    /\ cmd = "_detect_grid"
    /\ pc = "call"
    /\ ret' = _detect_grid(args.img)
    /\ pc' = "return"
    /\ UNCHANGED <<cmd, args, locals, fs, stderr, exit_code>>

GridNext == CallDetectGrid

SpecGrid == GridInit /\ [][GridNext]_vars

----------------------------------------------------------------------------
(* File names and directory listings *)

CharDot == 46

CharZero == 48

(* the part of f"frame_{idx:03d}.png" after "frame_", up to and including  *)
(* the dot, as character codes                                             *)
FrameName(idx) ==
    IF idx < 1000
    THEN <<CharZero + (idx \div 100), CharZero + ((idx \div 10) % 10),
           CharZero + (idx % 10), CharDot>>
    ELSE <<CharZero + (idx \div 1000), CharZero + ((idx \div 100) % 10),
           CharZero + ((idx \div 10) % 10), CharZero + (idx % 10), CharDot>>

(* string order of two names *)
RECURSIVE LexLess(_, _)
LexLess(a, b) ==
    IF b = <<>> THEN FALSE
    ELSE IF a = <<>> THEN TRUE
    ELSE IF Head(a) # Head(b) THEN Head(a) < Head(b)
    ELSE LexLess(Tail(a), Tail(b))

(* the listing in descending string order *)
RECURSIVE SortedNamesDescending(_)
SortedNamesDescending(S) ==
    IF S = {} THEN <<>>
    ELSE LET last == CHOOSE n \in S : \A m \in S \ {n} : LexLess(m, n)
         IN  <<last>> \o SortedNamesDescending(S \ {last})

(* sorted(frames_path.glob("*.png")) *)
RECURSIVE SortedNames(_)
SortedNames(S) ==
    IF S = {} THEN <<>>
    ELSE LET first == CHOOSE n \in S : \A m \in S \ {n} : LexLess(n, m)
         IN  <<first>> \o SortedNames(S \ {first})

----------------------------------------------------------------------------
(* cut_sprite_sheet *)

CountExceedsOrFills(frame_count, total_cells) == frame_count >= total_cells

(* line 280: frame_count > total_cells *)
CountExceeds(frame_count, total_cells) == frame_count > total_cells

(* every cell taken from the sheet's first row of cells *)
CellBoxFirstRow(idx, cols, frame_w, frame_h) ==
    LET left == (idx % cols) * frame_w
    IN  <<left, 0, left + frame_w, frame_h>>

(* the grid rectangle of cell idx *)
CellBox(idx, cols, frame_w, frame_h) ==
    LET left == (idx % cols) * frame_w
        upper == (idx \div cols) * frame_h
    IN  <<left, upper, left + frame_w, upper + frame_h>>

(* lines 305-323: the frame cut from one cell *)
TrimToContent(cell_nobg, bbox) ==
    IF bbox # None THEN Crop(cell_nobg, bbox) ELSE cell_nobg

ContentOfCell(cell_nobg) == TrimToContent(cell_nobg, _get_content_bbox(cell_nobg))

CutFrame(img, box, simple) ==
    IF simple THEN Crop(img, box)
    ELSE ContentOfCell(_remove_bg(Crop(img, box)))

SheetTwoByTwo ==
    SyntheticSheet([cols |-> 2, rows |-> 2, cell_w |-> 1, cell_h |-> 1,
                    gap |-> 1, margin |-> 1, tone |-> 31])

SheetTouching ==
    SyntheticSheet([cols |-> 2, rows |-> 1, cell_w |-> MaxCellSide, cell_h |-> MaxCellSide,
                    gap |-> 0, margin |-> 0, tone |-> 31])

SheetAlpha ==
    MkImage(2 * MaxCellSide, MaxCellSide,
        [c \in Coords(2 * MaxCellSide, MaxCellSide) |->
            IF c = <<1, 1>> THEN PxLight ELSE PxClear])

SheetBlank == Solid(2 * MaxCellSide, MaxCellSide, PxClear)

(* a faint pixel: visible, but below the alpha that counts as content *)
PxFaint == <<200, 200, 200, 100>>

SheetFaint ==
    MkImage(2 * MaxCellSide, MaxCellSide,
        [c \in Coords(2 * MaxCellSide, MaxCellSide) |->
            IF c = <<0, 0>> THEN PxFaint ELSE PxClear])

CutSheets == {SheetTwoByTwo, SheetTouching, SheetAlpha, SheetBlank, SheetFaint}

(* explicit --cols / --rows never exceed the sheet's width / height, so    *)
(* that no cell is empty                                                   *)
CutInit ==
    /\ cmd = "cut_sprite_sheet"
    /\ pc = "start"
    /\ args \in {a \in [img : CutSheets,
                        cols : {None} \cup {<<k>> : k \in 1..MaxCutCols},
                        rows : {None} \cup {<<k>> : k \in 1..MaxCutRows},
                        count : {None} \cup {<<k>> : k \in 0..(MaxCutCols * MaxCutRows + 1)},
                        simple : BOOLEAN,
                        auto_grid : BOOLEAN] :
                    /\ a.cols # None => a.cols[1] <= a.img.w
                    /\ a.rows # None => a.rows[1] <= a.img.h}
    /\ Idle

CutFail(what) ==
    /\ stderr' = Append(stderr, [kind |-> "error", what |-> what])
    /\ exit_code' = <<1>>
    /\ pc' = "exit"
    /\ UNCHANGED <<locals, fs>>

(* lines 277-296: check count against the grid, create the directory *)
CutResolved(cols, rows) ==
    LET total_cells == cols * rows
        frame_count == IF args.count # None THEN args.count[1] ELSE total_cells
    IN  IF CountExceeds(frame_count, total_cells) THEN CutFail("count")
        ELSE /\ locals' = [cols |-> cols, rows |-> rows, frame_count |-> frame_count,
                           frame_w |-> args.img.w \div cols,
                           frame_h |-> args.img.h \div rows,
                           idx |-> 0]
             /\ fs' = [fs EXCEPT !.out_dir = TRUE]
             /\ pc' = "loop"
             /\ UNCHANGED <<stderr, exit_code>>

(* lines 259-268: the outcome of --auto-grid *)
CutDetected(detected) ==
    IF detected = None THEN CutFail("no-grid")
    ELSE CutResolved(detected[1], detected[2])

(* lines 256-296: resolve the grid, check count, create the directory *)
CutStart ==
    /\ cmd = "cut_sprite_sheet"
    /\ pc = "start"
    /\ IF args.auto_grid THEN CutDetected(_detect_grid(args.img))
       ELSE IF args.cols = None \/ args.rows = None THEN CutFail("no-cols-rows")
       ELSE CutResolved(args.cols[1], args.rows[1])
    /\ UNCHANGED <<cmd, args, ret>>

(* lines 297-328: one iteration of the cell loop *)
CutCell ==
    /\ cmd = "cut_sprite_sheet"
    /\ pc = "loop"
    /\ locals.idx < locals.frame_count
    /\ LET box == CellBox(locals.idx, locals.cols, locals.frame_w, locals.frame_h)
       IN  fs' = [fs EXCEPT !.files =
                    Append(@, [name |-> FrameName(locals.idx),
                               img |-> CutFrame(args.img, box, args.simple)])]
    /\ locals' = [locals EXCEPT !.idx = @ + 1]
    /\ UNCHANGED <<cmd, args, pc, stderr, ret, exit_code>>

(* lines 330-332: report the saved files and return *)
CutDone ==
    /\ cmd = "cut_sprite_sheet"
    /\ pc = "loop"
    /\ locals.idx >= locals.frame_count
    /\ pc' = "done"
    /\ exit_code' = <<0>>
    /\ ret' = [k \in 1..Len(fs.files) |-> fs.files[k].name]
    /\ UNCHANGED <<cmd, args, locals, fs, stderr>>

CutNext == CutStart \/ CutCell \/ CutDone

SpecCut == CutInit /\ [][CutNext]_vars

----------------------------------------------------------------------------
(* image_utils.find_anchor_points: centroid and row-density scan of the    *)
(* pixels with alpha >= 128.  center_x and center_y are the fractions      *)
(* cx_sum / total_opaque and cy_sum / total_opaque.                        *)

RECURSIVE SumOver(_, _)
SumOver(S, k) ==
    IF S = {} THEN 0
    ELSE LET c == CHOOSE c \in S : TRUE IN c[k] + SumOver(S \ {c}, k)

(* every row counts as dense, whatever it holds *)
RowAlwaysDense(count, max_row, percent) == TRUE

(* lines 57 and 61: row_opaque[y] >= max_row * 0.10 (head) or 0.15 (feet) *)
RowDense(count, max_row, percent) == 100 * count >= percent * max_row

find_anchor_points(img) ==
    LET opaque == {c \in Coords(img.w, img.h) : img.px[c][4] >= ALPHA_FOREGROUND}
        row_opaque == [y \in 0..(img.h - 1) |-> Cardinality({c \in opaque : c[2] = y})]
        total_opaque == Cardinality(opaque)
        max_row == SetMax({row_opaque[y] : y \in 0..(img.h - 1)})
        head_rows == {y \in 0..(img.h - 1) : RowDense(row_opaque[y], max_row, 10)}
        feet_rows == {y \in 0..(img.h - 1) : RowDense(row_opaque[y], max_row, 15)}
    IN  IF total_opaque = 0 THEN None
        ELSE <<[center_x |-> <<SumOver(opaque, 1), total_opaque>>,
                center_y |-> <<SumOver(opaque, 2), total_opaque>>,
                feet_y |-> IF feet_rows = {} THEN img.h - 1 ELSE SetMax(feet_rows),
                head_y |-> IF head_rows = {} THEN 0 ELSE SetMin(head_rows)]>>

----------------------------------------------------------------------------
(* align_frames *)

Transparent == <<0, 0, 0, 0>>

(* canvas.paste(content, (paste_x, paste_y)): the region is overwritten,   *)
(* clipped to the canvas                                                   *)
Paste(canvas, content, paste_x, paste_y) ==
    MkImage(canvas.w, canvas.h,
        [c \in Coords(canvas.w, canvas.h) |->
            IF <<c[1] - paste_x, c[2] - paste_y>> \in Coords(content.w, content.h)
            THEN content.px[<<c[1] - paste_x, c[2] - paste_y>>]
            ELSE canvas.px[c]])

(* which branch of the if / elif chain places the frame *)
AnchorSourceFileLast(in_file, pixel_align, pixel_ok, vision_align, vision_ok) ==
    IF pixel_align /\ pixel_ok THEN "pixel"
    ELSE IF vision_align /\ vision_ok THEN "vision"
    ELSE IF in_file THEN "anchor-file"
    ELSE "bbox"

AnchorSourceVisionFirst(in_file, pixel_align, pixel_ok, vision_align, vision_ok) ==
    IF in_file THEN "anchor-file"
    ELSE IF vision_align THEN (IF vision_ok THEN "vision" ELSE "bbox")
    ELSE IF pixel_align THEN (IF pixel_ok THEN "pixel" ELSE "bbox")
    ELSE "bbox"

AnchorSource(in_file, pixel_align, pixel_ok, vision_align, vision_ok) ==
    IF in_file THEN "anchor-file"
    ELSE IF pixel_align THEN (IF pixel_ok THEN "pixel" ELSE "bbox")
    ELSE IF vision_align THEN (IF vision_ok THEN "vision" ELSE "bbox")
    ELSE "bbox"

(* round(canvas_h * 0.9), halves up *)
BottomLineRounded(canvas_h) == (canvas_h * 9 + 5) \div 10

(* int(canvas_h * 0.9) and int(canvas_h * 0.1) *)
BottomLine(canvas_h) == (canvas_h * 9) \div 10

TopLine(canvas_h) == canvas_h \div 10

(* paste offsets from content-local anchor coordinates, each a fraction    *)
(* <<numerator, denominator>>                                              *)
AnchoredPaste(anchor, canvas_w, canvas_h, cx_in, cy_in, fy_in, hy_in) ==
    [paste_x |-> (canvas_w \div 2) - IntTrunc(cx_in[1], cx_in[2]),
     paste_y |-> CASE anchor = "bottom" -> BottomLine(canvas_h) - IntTrunc(fy_in[1], fy_in[2])
                   [] anchor = "top" -> TopLine(canvas_h) - IntTrunc(hy_in[1], hy_in[2])
                   [] OTHER -> (canvas_h \div 2) - IntTrunc(cy_in[1], cy_in[2])]

(* the content's corner, not its centre, put on the canvas centre *)
BBoxPasteFromCorner(anchor, canvas_w, canvas_h, content_w, content_h) ==
    [paste_x |-> canvas_w \div 2,
     paste_y |-> CASE anchor = "bottom" -> BottomLine(canvas_h) - content_h
                   [] anchor = "top" -> TopLine(canvas_h)
                   [] OTHER -> canvas_h \div 2]

BBoxPaste(anchor, canvas_w, canvas_h, content_w, content_h) ==
    [paste_x |-> (canvas_w \div 2) - (content_w \div 2),
     paste_y |-> CASE anchor = "bottom" -> BottomLine(canvas_h) - content_h
                   [] anchor = "top" -> TopLine(canvas_h)
                   [] OTHER -> (canvas_h \div 2) - (content_h \div 2)]

(* the content-local anchor of each strategy *)
FileAnchor(pts, left, upper) ==
    [cx_in |-> <<pts.center_x - left, 1>>, cy_in |-> <<pts.center_y - upper, 1>>,
     fy_in |-> <<pts.feet_y - upper, 1>>, hy_in |-> <<pts.head_y - upper, 1>>]

PixelAnchor(pts, left, upper) ==
    [cx_in |-> <<pts.center_x[1] - left * pts.center_x[2], pts.center_x[2]>>,
     cy_in |-> <<pts.center_y[1] - upper * pts.center_y[2], pts.center_y[2]>>,
     fy_in |-> <<pts.feet_y - upper, 1>>, hy_in |-> <<pts.head_y - upper, 1>>]

VisionAnchor(anchors, img, left, upper) ==
    LET local(frac, size, origin) == <<frac[1] * size - origin * frac[2], frac[2]>>
    IN  [cx_in |-> local(anchors.center_x_frac, img.w, left),
         cy_in |-> local(anchors.center_y_frac, img.h, upper),
         fy_in |-> local(anchors.feet_y_frac, img.h, upper),
         hy_in |-> local(anchors.head_y_frac, img.h, upper)]

(* one iteration of the output loop for a frame with a content bbox:       *)
(* the strategy used, the anchor and the paste offset; pixel is what       *)
(* find_anchor_points returns for the frame                                *)
PlaceGiven(img, bbox, frame_name, anchor_data, pixel_align, vision_align, vision, anchor, canvas_w, canvas_h, pixel) ==
    LET left == bbox[1]
        upper == bbox[2]
        used_mode == AnchorSource(frame_name \in DOMAIN anchor_data, pixel_align,
                                  pixel # None, vision_align, vision # None)
        local == CASE used_mode = "anchor-file" -> FileAnchor(anchor_data[frame_name], left, upper)
                   [] used_mode = "pixel" -> PixelAnchor(pixel[1], left, upper)
                   [] used_mode = "vision" -> VisionAnchor(vision[1], img, left, upper)
                   [] OTHER -> None
        paste == IF used_mode = "bbox"
                 THEN BBoxPaste(anchor, canvas_w, canvas_h, bbox[3] - left, bbox[4] - upper)
                 ELSE AnchoredPaste(anchor, canvas_w, canvas_h,
                                    local.cx_in, local.cy_in, local.fy_in, local.hy_in)
    IN  [used_mode |-> used_mode, local |-> local,
         paste_x |-> paste.paste_x, paste_y |-> paste.paste_y]

PlaceFrame(img, bbox, frame_name, anchor_data, pixel_align, vision_align, vision, anchor, canvas_w, canvas_h) ==
    PlaceGiven(img, bbox, frame_name, anchor_data, pixel_align, vision_align, vision,
               anchor, canvas_w, canvas_h, find_anchor_points(img))

(* int(max_content * 1.1) *)
AutoCanvas(max_content) == (max_content * 11) \div 10

(* the frames a directory can hold *)
FrameBlank == Solid(MaxW, MaxH, PxClear)

FrameCorner ==
    MkImage(MaxW, MaxH,
        [c \in Coords(MaxW, MaxH) |->
            IF c = <<MaxW - 1, MaxH - 1>> THEN PxLight ELSE PxClear])

FrameTopRow ==
    MkImage(MaxW, MaxH + 1,
        [c \in Coords(MaxW, MaxH + 1) |-> IF c[2] = 0 THEN PxLight ELSE PxClear])

FrameOpaqueDot ==
    MkImage(MaxW, MaxH,
        [c \in Coords(MaxW, MaxH) |-> IF c = <<0, 0>> THEN PxLight ELSE PxBlack])

FrameCatalogue == {FrameBlank, FrameCorner, FrameTopRow, FrameOpaqueDot}

AlignNames == {FrameName(0), FrameName(1), FrameName(10)}

Directories(names, maxn, images) ==
    UNION {[S -> images] : S \in {T \in SUBSET names : Cardinality(T) <= maxn}}

AnchorPoints ==
    {[center_x |-> 0, center_y |-> 0, feet_y |-> 0, head_y |-> 0],
     [center_x |-> 2, center_y |-> 1, feet_y |-> 2, head_y |-> 1]}

(* --anchor-file: absent, a file json.load fails on, or a loaded mapping *)
AnchorFiles ==
    {[kind |-> "absent"], [kind |-> "unreadable"]}
    \cup {[kind |-> "loaded", data |-> [n \in {} |-> 0]]}
    \cup {[kind |-> "loaded", data |-> [n \in S |-> p]] :
             S \in {{FrameName(0)}, AlignNames}, p \in AnchorPoints}

(* what analyze_frame can return: None, or fractions of the image size *)
VisionAnswers ==
    {None,
     <<[center_x_frac |-> <<1, 2>>, center_y_frac |-> <<1, 2>>,
        feet_y_frac |-> <<1, 1>>, head_y_frac |-> <<0, 1>>]>>,
     <<[center_x_frac |-> <<1, 4>>, center_y_frac |-> <<3, 4>>,
        feet_y_frac |-> <<3, 4>>, head_y_frac |-> <<1, 4>>]>>}

ExplicitCanvasW == 4

ExplicitCanvasH == 3

AlignInit ==
    /\ cmd = "align_frames"
    /\ pc = "start"
    /\ args \in {a \in [dir : Directories(AlignNames, MaxAlignFrames, FrameCatalogue),
                          canvas : {<<None, None>>,
                                    <<<<ExplicitCanvasW>>, <<ExplicitCanvasH>>>>},
                          anchor : {"center", "bottom", "top"},
                          vision_align : BOOLEAN,
                          pixel_align : BOOLEAN,
                          anchor_file : AnchorFiles,
                          vision_available : BOOLEAN] :
                     a.vision_align \/ a.vision_available}
    /\ Idle

(* lines 389-400: the frames as loaded, and their content boxes *)
LoadFrames(dir, frame_files) ==
    [k \in 1..Len(frame_files) |-> _remove_bg(dir[frame_files[k]])]

ContentBBoxes(frames) == [k \in 1..Len(frames) |-> _get_content_bbox(frames[k])]

(* lines 402-409: the largest content extent between box entries lo and hi *)
MaxContent(bboxes, lo, hi) ==
    SetMax({bboxes[k][hi] - bboxes[k][lo] :
               k \in {j \in 1..Len(bboxes) : bboxes[j] # None}} \cup {0})

(* lines 416-419 *)
CanvasSide(explicit, max_content) ==
    IF explicit = None THEN AutoCanvas(max_content) ELSE explicit[1]

AlignLoaded(frame_files, frames, bboxes) ==
    IF Len(frame_files) = 0
    THEN /\ stderr' = Append(stderr, [kind |-> "error", what |-> "no-png"])
         /\ exit_code' = <<1>>
         /\ pc' = "exit"
         /\ UNCHANGED <<locals, fs>>
    ELSE IF MaxContent(bboxes, 1, 3) = 0 \/ MaxContent(bboxes, 2, 4) = 0
    THEN /\ stderr' = Append(stderr, [kind |-> "error", what |-> "all-transparent"])
         /\ exit_code' = <<1>>
         /\ pc' = "exit"
         /\ UNCHANGED <<locals, fs>>
    ELSE /\ locals' = [frame_files |-> frame_files, frames |-> frames,
                       bboxes |-> bboxes,
                       canvas_w |-> CanvasSide(args.canvas[1], MaxContent(bboxes, 1, 3)),
                       canvas_h |-> CanvasSide(args.canvas[2], MaxContent(bboxes, 2, 4)),
                       anchor_data |-> IF args.anchor_file.kind = "loaded"
                                       THEN args.anchor_file.data ELSE <<>>,
                       vision_align |-> args.vision_align /\ args.vision_available,
                       i |-> 0, last |-> None]
         /\ fs' = [fs EXCEPT !.out_dir = TRUE]
         /\ pc' = "loop"
         /\ UNCHANGED <<stderr, exit_code>>

(* lines 382-454: list and load the frames, size the canvas, create the    *)
(* output directory, load the anchor file                                  *)
AlignLoad ==
    /\ cmd = "align_frames"
    /\ pc = "start"
    /\ AlignLoaded(SortedNames(DOMAIN args.dir),
                   LoadFrames(args.dir, SortedNames(DOMAIN args.dir)),
                   ContentBBoxes(LoadFrames(args.dir, SortedNames(DOMAIN args.dir))))
    /\ UNCHANGED <<cmd, args, ret>>

(* lines 543-553: paste the content, save the canvas *)
AlignEmit(i, img, bbox, placed, calls_vision, vision) ==
    /\ fs' = [fs EXCEPT !.files =
                 Append(@, [name |-> FrameName(i),
                            img |-> IF bbox = None
                                    THEN Solid(locals.canvas_w, locals.canvas_h, Transparent)
                                    ELSE Paste(Solid(locals.canvas_w, locals.canvas_h, Transparent),
                                               Crop(img, bbox), placed.paste_x, placed.paste_y)])]
    /\ stderr' = IF bbox = None THEN stderr
                 ELSE Append(stderr, [kind |-> "frame", i |-> i,
                                      used_mode |-> placed.used_mode,
                                      paste |-> <<placed.paste_x, placed.paste_y>>])
    /\ locals' = [locals EXCEPT
                    !.i = i + 1,
                    !.last = IF bbox = None THEN None
                             ELSE <<[placed |-> placed,
                                     calls_vision |-> calls_vision,
                                     vision |-> vision]>>]

(* whether the vision strategy is reached for a frame *)
CallsVision(bbox, frame_name) ==
    /\ bbox # None
    /\ frame_name \notin DOMAIN locals.anchor_data
    /\ ~args.pixel_align
    /\ locals.vision_align

(* lines 457-553: one iteration of the output loop *)
AlignFrame ==
    /\ cmd = "align_frames"
    /\ pc = "loop"
    /\ locals.i < Len(locals.frames)
    /\ \E vision \in IF CallsVision(locals.bboxes[locals.i + 1],
                                     locals.frame_files[locals.i + 1])
                      THEN VisionAnswers ELSE {None} :
          AlignEmit(locals.i, locals.frames[locals.i + 1], locals.bboxes[locals.i + 1],
                    PlaceFrame(locals.frames[locals.i + 1], locals.bboxes[locals.i + 1],
                               locals.frame_files[locals.i + 1], locals.anchor_data,
                               args.pixel_align, locals.vision_align, vision,
                               args.anchor, locals.canvas_w, locals.canvas_h),
                    CallsVision(locals.bboxes[locals.i + 1],
                                locals.frame_files[locals.i + 1]),
                    vision)
    /\ UNCHANGED <<cmd, args, pc, ret, exit_code>>

(* lines 555-557: report the saved files and return *)
AlignDone ==
    /\ cmd = "align_frames"
    /\ pc = "loop"
    /\ locals.i = Len(locals.frames)
    /\ pc' = "done"
    /\ exit_code' = <<0>>
    /\ ret' = [k \in 1..Len(fs.files) |-> fs.files[k].name]
    /\ UNCHANGED <<cmd, args, locals, fs, stderr>>

(* line 506: _analyze_frame raises (a parsed response that is not an object, *)
(* or a fraction beyond the float range); nothing catches it and the call   *)
(* ends with a traceback, the canvases saved so far stay on disk            *)
AlignVisionRaise ==
    /\ cmd = "align_frames"
    /\ pc = "loop"
    /\ locals.i < Len(locals.frames)
    /\ CallsVision(locals.bboxes[locals.i + 1], locals.frame_files[locals.i + 1])
    /\ stderr' = Append(stderr, [kind |-> "traceback", i |-> locals.i])
    /\ exit_code' = <<1>>
    /\ pc' = "crash"
    /\ UNCHANGED <<cmd, args, locals, fs, ret>>

AlignNext == AlignLoad \/ AlignFrame \/ AlignVisionRaise \/ AlignDone

SpecAlign == AlignInit /\ [][AlignNext]_vars

----------------------------------------------------------------------------
(* align_frames on one 100 x 100 frame and a 220 x 220 canvas *)

SquareSide == 100

SquareCanvas == 220

(* fully opaque, one colour *)
SquareSolid == Solid(SquareSide, SquareSide, PxLight)

(* fully opaque, a dark diagonal from corner to corner on a light ground *)
SquareDiagonal ==
    MkImage(SquareSide, SquareSide,
        [c \in Coords(SquareSide, SquareSide) |-> IF c[1] = c[2] THEN PxBlack ELSE PxLight])

(* fully opaque, a dark block in the middle of a light ground *)
SquareBlock ==
    MkImage(SquareSide, SquareSide,
        [c \in Coords(SquareSide, SquareSide) |->
            IF c[1] \in 40..59 /\ c[2] \in 45..54 THEN PxBlack ELSE PxLight])

SquareFrames == {SquareSolid, SquareDiagonal, SquareBlock}

SquareArgs ==
    {a \in [dir : {[n \in {FrameName(0)} |-> f] : f \in SquareFrames},
            canvas : {<<<<SquareCanvas>>, <<SquareCanvas>>>>},
            anchor : {"center", "bottom", "top"},
            vision_align : BOOLEAN,
            pixel_align : {FALSE},
            anchor_file : {[kind |-> "absent"]},
            vision_available : BOOLEAN] :
        a.vision_align \/ a.vision_available}

SquareInit ==
    /\ cmd = "align_frames"
    /\ pc = "start"
    /\ args \in SquareArgs
    /\ Idle

SpecSquare == SquareInit /\ [][AlignNext]_vars

----------------------------------------------------------------------------
(* combine_frames *)

_LINE_APNG_MAX_W == 320

_LINE_APNG_MAX_H == 270

_LINE_APNG_MIN_FRAMES == 5

_LINE_APNG_MAX_FRAMES == 20

_LINE_APNG_MAX_DURATION_MS == 4000

_LINE_APNG_MAX_BYTES == 1 * 1024 * 1024

DEFAULT_FPS == 16

MAX_RESIZE_ATTEMPTS == 3

(* str.split(","): the pieces of a character sequence between commas *)
RECURSIVE Split(_)
Split(text) ==
    IF \A k \in 1..Len(text) : text[k] # ","
    THEN <<text>>
    ELSE LET k == CHOOSE j \in 1..Len(text) :
                      text[j] = "," /\ \A m \in 1..(j - 1) : text[m] # ","
         IN  <<SubSeq(text, 1, k - 1)>> \o Split(SubSeq(text, k + 1, Len(text)))

(* str.strip() *)
RECURSIVE Strip(_)
Strip(text) ==
    IF text = <<>> THEN text
    ELSE IF Head(text) = " " THEN Strip(Tail(text))
    ELSE IF text[Len(text)] = " " THEN Strip(SubSeq(text, 1, Len(text) - 1))
    ELSE text

DigitValue ==
    ("0" :> 0) @@ ("1" :> 1) @@ ("2" :> 2) @@ ("3" :> 3) @@ ("4" :> 4) @@
    ("5" :> 5) @@ ("6" :> 6) @@ ("7" :> 7) @@ ("8" :> 8) @@ ("9" :> 9)

RECURSIVE DigitsValue(_)
DigitsValue(digits) ==
    IF digits = <<>> THEN 0
    ELSE 10 * DigitsValue(SubSeq(digits, 1, Len(digits) - 1))
         + DigitValue[digits[Len(digits)]]

(* int(x.strip()): <<value>>, or None where Python raises ValueError *)
ParseInt(text) ==
    LET stripped == Strip(text)
        signed == stripped # <<>> /\ Head(stripped) \in {"+", "-"}
        digits == IF signed THEN Tail(stripped) ELSE stripped
    IN  IF digits = <<>> \/ \E k \in 1..Len(digits) : digits[k] \notin DOMAIN DigitValue
        THEN None
        ELSE IF signed /\ Head(stripped) = "-" THEN <<0 - DigitsValue(digits)>>
        ELSE <<DigitsValue(digits)>>

(* Python's round() of p / q (p >= 0, q > 0): halves go to the even side *)
RoundHalfEven(p, q) ==
    LET f == p \div q
        r == 2 * (p % q)
    IN  IF r < q THEN f
        ELSE IF r > q THEN f + 1
        ELSE IF f % 2 = 0 THEN f ELSE f + 1

(* lines 718-724 *)
RequestedTotal(fps, duration, num_frames) ==
    IF duration # None THEN duration[1]
    ELSE IF fps # None THEN RoundHalfEven(1000, fps[1]) * num_frames
    ELSE RoundHalfEven(1000, DEFAULT_FPS) * num_frames

(* the uniform share rounded to the nearest millisecond *)
UniformDurationRounded(total_ms, num_frames) == RoundHalfEven(total_ms, num_frames)

(* line 731: frame_duration = total_ms // num_frames *)
UniformDuration(total_ms, num_frames) == total_ms \div num_frames

(* lines 729-751: the duration list, or the error that stops the call *)
BuildDurationsIgnoringLength(timing, num_frames, total_ms) ==
    CASE timing.kind = "none" ->
            [error |-> None, durations |-> [k \in 1..num_frames |-> UniformDuration(total_ms, num_frames)]]
      [] timing.kind = "preset" ->
            [error |-> None, durations |-> _make_timing_list(num_frames, total_ms, timing.name)]
      [] OTHER ->
            LET parsed == [k \in 1..Len(Split(timing.text)) |-> ParseInt(Split(timing.text)[k])]
            IN  IF \E k \in 1..Len(parsed) : parsed[k] = None
                THEN [error |-> <<"timing-invalid">>, durations |-> <<>>]
                ELSE [error |-> None,
                      durations |-> [k \in 1..num_frames |->
                                       parsed[((k - 1) % Len(parsed)) + 1][1]]]

BuildDurations(timing, num_frames, total_ms) ==
    CASE timing.kind = "none" ->
            [error |-> None, durations |-> [k \in 1..num_frames |-> UniformDuration(total_ms, num_frames)]]
      [] timing.kind = "preset" ->
            [error |-> None, durations |-> _make_timing_list(num_frames, total_ms, timing.name)]
      [] OTHER ->
            LET parsed == [k \in 1..Len(Split(timing.text)) |-> ParseInt(Split(timing.text)[k])]
            IN  IF \E k \in 1..Len(parsed) : parsed[k] = None
                THEN [error |-> <<"timing-invalid">>, durations |-> <<>>]
                ELSE IF Len(parsed) # num_frames
                THEN [error |-> <<"timing-length">>, durations |-> <<>>]
                ELSE [error |-> None, durations |-> [k \in 1..Len(parsed) |-> parsed[k][1]]]

(* line 779: the artifact is small enough, the retry loop stops *)
UnderBudget(file_size) == file_size < _LINE_APNG_MAX_BYTES

(* line 577 *)
OkBytesInKilobytes(file_size) == file_size \div 1024 < _LINE_APNG_MAX_BYTES

OkBytes(file_size) == file_size < _LINE_APNG_MAX_BYTES

(* max(1, round(side * 0.8)) *)
ScaledSideRounded(side) == Max(1, RoundHalfEven(side * 8, 10))

(* max(1, int(side * 0.8)) *)
ScaledSide(side) == Max(1, (side * 8) \div 10)

(* a save without append_images: only the first frame is written *)
EncodeFirstFrameOnly(frames, durations, loop, quantize, size) ==
    [frames |-> <<frames[1]>>, durations |-> durations, loop |-> loop,
     quantized |-> quantize, size |-> size]

(* _save_apng: what the encoder is handed; its byte size is the encoder's *)
Encode(frames, durations, loop, quantize, size) ==
    [frames |-> frames, durations |-> durations, loop |-> loop,
     quantized |-> quantize, size |-> size]

(* _validate_line_animated_sticker *)
ValidationReport(artifact, num_frames, total_ms) ==
    LET w == artifact.frames[1].w
        h == artifact.frames[1].h
        ok_size == w <= _LINE_APNG_MAX_W /\ h <= _LINE_APNG_MAX_H
        ok_frames == _LINE_APNG_MIN_FRAMES <= num_frames /\ num_frames <= _LINE_APNG_MAX_FRAMES
        ok_dur == total_ms <= _LINE_APNG_MAX_DURATION_MS
        ok_bytes == OkBytes(artifact.size)
    IN  [kind |-> "validation",
         status |-> IF ok_size /\ ok_frames /\ ok_dur /\ ok_bytes THEN "PASS" ELSE "FAIL",
         ok_size |-> ok_size, ok_frames |-> ok_frames, ok_dur |-> ok_dur,
         ok_bytes |-> ok_bytes]

(* the byte sizes an encode can come out at *)
SizeChoices ==
    {_LINE_APNG_MAX_BYTES - 1, _LINE_APNG_MAX_BYTES, _LINE_APNG_MAX_BYTES + 1}

CombineDims == {<<320, 270>>, <<400, 300>>, <<1, 1>>}

CombineDirs ==
    {[n \in {FrameName(k) : k \in 0..(count - 1)} |-> [w |-> d[1], h |-> d[2], src |-> n]] :
        count \in 0..MaxCombineFrames, d \in CombineDims}

(* a comma-separated --timing value of n entries, each a copy of token *)
RECURSIVE Repeated(_, _)
Repeated(token, n) ==
    IF n = 0 THEN <<>>
    ELSE IF n = 1 THEN token
    ELSE token \o <<",">> \o Repeated(token, n - 1)

TimingTexts ==
    UNION {{Repeated(<<"4", "0">>, n),
            <<" ", "7", "5", " ", ",">> \o Repeated(<<"-", "5">>, n),
            Repeated(<<"4", "0">>, n) \o <<",", "x">>} : n \in 0..MaxCombineFrames}

TimingOptions ==
    {[kind |-> "none"]}
    \cup {[kind |-> "preset", name |-> c] : c \in Curves}
    \cup {[kind |-> "text", text |-> t] : t \in TimingTexts}

CombineInit ==
    /\ cmd = "combine_frames"
    /\ pc = "start"
    /\ args \in [dir : CombineDirs,
                 rate : {[fps |-> None, duration |-> None], [fps |-> <<8>>, duration |-> None],
                         [fps |-> None, duration |-> <<100>>],
                         [fps |-> None, duration |-> <<3>>],
                         [fps |-> None, duration |-> <<5000>>]},
                 loop : {0},
                 timing : TimingOptions,
                 quantize : BOOLEAN,
                 auto_resize : BOOLEAN]
    /\ Idle

CombineFail(what) ==
    /\ stderr' = Append(stderr, [kind |-> "error", what |-> what])
    /\ exit_code' = <<1>>
    /\ pc' = "exit"
    /\ UNCHANGED <<locals, fs>>

(* lines 708-757: list the frames, build the durations, create the output  *)
(* file's directory                                                        *)
CombineStart ==
    /\ cmd = "combine_frames"
    /\ pc = "start"
    /\ LET frame_files == SortedNames(DOMAIN args.dir)
           num_frames == Len(frame_files)
           frames == [k \in 1..num_frames |-> args.dir[frame_files[k]]]
           total_ms == RequestedTotal(args.rate.fps, args.rate.duration, num_frames)
           built == BuildDurations(args.timing, num_frames, total_ms)
       IN  IF num_frames = 0 THEN CombineFail("no-png")
           ELSE IF built.error # None THEN CombineFail(built.error[1])
           ELSE /\ locals' = [frames |-> frames, num_frames |-> num_frames,
                              frame_durations |-> built.durations,
                              total_ms |-> Sum(built.durations),
                              current_frames |-> frames,
                              attempt |-> 1, encodes |-> 0]
                /\ fs' = [fs EXCEPT !.out_dir = TRUE]
                /\ pc' = "save"
                /\ UNCHANGED <<stderr, exit_code>>
    /\ UNCHANGED <<cmd, args, ret>>

(* line 773: the first _save_apng *)
CombineSave ==
    /\ cmd = "combine_frames"
    /\ pc = "save"
    /\ \E size \in SizeChoices :
          fs' = [fs EXCEPT !.files = <<Encode(locals.frames, locals.frame_durations,
                                              args.loop, args.quantize, size)>>]
    /\ locals' = [locals EXCEPT !.encodes = 1]
    /\ pc' = "resize"
    /\ UNCHANGED <<cmd, args, stderr, ret, exit_code>>

(* lines 777-792: one pass of the auto-resize loop that re-encodes *)
CombineResize ==
    /\ cmd = "combine_frames"
    /\ pc = "resize"
    /\ args.auto_resize
    /\ locals.attempt <= MAX_RESIZE_ATTEMPTS
    /\ ~UnderBudget(fs.files[1].size)
    /\ LET new_w == ScaledSide(locals.current_frames[1].w)
           new_h == ScaledSide(locals.current_frames[1].h)
           resized == [k \in 1..Len(locals.frames) |->
                          [w |-> new_w, h |-> new_h, src |-> locals.frames[k].src]]
       IN  /\ \E size \in SizeChoices :
                 fs' = [fs EXCEPT !.files = <<Encode(resized, locals.frame_durations,
                                                     args.loop, args.quantize, size)>>]
           /\ locals' = [locals EXCEPT !.current_frames = resized,
                                       !.attempt = @ + 1,
                                       !.encodes = @ + 1]
    /\ UNCHANGED <<cmd, args, pc, stderr, ret, exit_code>>

(* lines 775-780 and 794-813: the loop is over (or was never entered); the *)
(* validation report is printed and the output path returned               *)
CombineFinish ==
    /\ cmd = "combine_frames"
    /\ pc = "resize"
    /\ \/ ~args.auto_resize
       \/ locals.attempt > MAX_RESIZE_ATTEMPTS
       \/ UnderBudget(fs.files[1].size)
    /\ stderr' = Append(stderr, ValidationReport(fs.files[1], locals.num_frames,
                                                 locals.total_ms))
    /\ pc' = "done"
    /\ exit_code' = <<0>>
    /\ ret' = <<"out">>
    /\ UNCHANGED <<cmd, args, locals, fs>>

CombineNext == CombineStart \/ CombineSave \/ CombineResize \/ CombineFinish

SpecCombine == CombineInit /\ [][CombineNext]_vars

----------------------------------------------------------------------------
(* remove_chroma_key (image_utils), feather_radius = 0 *)

MaxChromaW == 2

MaxChromaH == 1

HexDigits == <<"0", "1", "2", "3", "4", "5", "6", "7", "8", "9", "A", "B", "C", "D", "E", "F">>

(* int(d, 16) of one hexadecimal digit, either case *)
HexVal(d) ==
    IF \E k \in 1..16 : HexDigits[k] = d
    THEN (CHOOSE k \in 1..16 : HexDigits[k] = d) - 1
    ELSE CASE d = "a" -> 10 [] d = "b" -> 11 [] d = "c" -> 12
           [] d = "d" -> 13 [] d = "e" -> 14 [] d = "f" -> 15

(* str.lstrip("#") of a string given as the sequence of its characters *)
RECURSIVE LStripHash(_)
LStripHash(s) ==
    IF Len(s) > 0 /\ Head(s) = "#" THEN LStripHash(Tail(s)) ELSE s

(* lines 105-108: the key colour <<cr, cg, cb>> of a hex colour string *)
ParseChromaColor(chroma_color) ==
    LET hex_color == LStripHash(chroma_color)
    IN  <<16 * HexVal(hex_color[1]) + HexVal(hex_color[2]),
          16 * HexVal(hex_color[3]) + HexVal(hex_color[4]),
          16 * HexVal(hex_color[5]) + HexVal(hex_color[6])>>

(* lut_alpha with the comparison taken strictly *)
LutAlphaStrict(i, tolerance) == IF i < tolerance THEN 0 ELSE 255

(* line 122: lut_alpha[i] *)
LutAlpha(i, tolerance) == IF i <= tolerance THEN 0 ELSE 255

(* lines 113-120: max_diff of one pixel, the lighter of the three channel distances *)
MaxDiff(p, key) ==
    Max(Max(Abs(p[1] - key[1]), Abs(p[2] - key[2])), Abs(p[3] - key[3]))

ChromaKeyed(img, key, tolerance) ==
    MkImage(img.w, img.h,
        [c \in Coords(img.w, img.h) |->
            <<img.px[c][1], img.px[c][2], img.px[c][3],
              LutAlpha(MaxDiff(img.px[c], key), tolerance)>>])

remove_chroma_key(img, chroma_color, tolerance) ==
    ChromaKeyed(img, ParseChromaColor(chroma_color), tolerance)

PxGreen == <<0, 255, 0, 255>>

PxRed == <<255, 0, 0, 255>>

PxGreenEdge == <<40, 255, 0, 0>>

PxGreenOff == <<41, 255, 0, 0>>

PxTeal == <<0, 215, 40, 128>>

ChromaPalette == {PxGreen, PxRed, PxGreenEdge, PxGreenOff, PxTeal}

ChromaSide == 50

ChromaImages ==
    UNION {{MkImage(w, h, f) : f \in [Coords(w, h) -> ChromaPalette]} :
              w \in 1..MaxChromaW, h \in 1..MaxChromaH}
    \cup {Solid(ChromaSide, ChromaSide, PxGreen), Solid(ChromaSide, ChromaSide, PxRed)}

ChromaColors ==
    {<<"#", "0", "0", "F", "F", "0", "0">>, <<"0", "0", "f", "f", "0", "0">>,
     <<"#", "F", "F", "0", "0", "0", "0">>}

ChromaTolerances == {0, 40, 255}

ChromaInit ==
    /\ cmd = "remove_chroma_key"
    /\ pc = "call"
    /\ args \in [img : ChromaImages, chroma_color : ChromaColors, tolerance : ChromaTolerances]
    /\ Idle

CallRemoveChromaKey ==
    /\ cmd = "remove_chroma_key"
    /\ pc = "call"
    /\ ret' = remove_chroma_key(args.img, args.chroma_color, args.tolerance)
    /\ pc' = "return"
    /\ UNCHANGED <<cmd, args, locals, fs, stderr, exit_code>>

ChromaNext == CallRemoveChromaKey

SpecChroma == ChromaInit /\ [][ChromaNext]_vars

----------------------------------------------------------------------------
(* _check_loop_smoothness *)

LOOP_SIDE == 64

(* frame.resize((side, side), LANCZOS): a frame already of that size is    *)
(* copied, and a frame of one colour stays of that colour (the kernel's    *)
(* coefficients are normalised); other frames are outside this model       *)
ResizeLanczos(img, side) ==
    CASE img.w = side /\ img.h = side -> img
      [] \A c \in Coords(img.w, img.h) : img.px[c] = img.px[<<0, 0>>] ->
            Solid(side, side, img.px[<<0, 0>>])

(* ImageChops.difference on one pixel: the absolute difference of each band *)
PixelDifference(p, q) ==
    <<Abs(p[1] - q[1]), Abs(p[2] - q[2]), Abs(p[3] - q[3]), Abs(p[4] - q[4])>>

(* convert("L") of an RGBA pixel: ITU-R 601-2 luma in 16-bit fixed point,   *)
(* the alpha band is dropped                                                *)
RgbToL(p) == (p[1] * 19595 + p[2] * 38470 + p[3] * 7471 + 32768) \div 65536

(* lines 672-675: the bytes of the "L" difference image, row by row *)
LoopDiff(f0, fl) ==
    [k \in 1..(LOOP_SIDE * LOOP_SIDE) |->
        LET c == <<(k - 1) % LOOP_SIDE, (k - 1) \div LOOP_SIDE>>
        IN  RgbToL(PixelDifference(f0.px[c], fl.px[c]))]

(* diff.histogram(): hist[i] is the number of bytes equal to i *)
Histogram(data, present) ==
    [i \in 0..255 |->
        IF i \in present THEN Cardinality({k \in 1..Len(data) : data[k] = i}) ELSE 0]

(* sum(i * count for i, count in enumerate(hist)) over the bins lo..hi *)
RECURSIVE WeightedSum(_, _, _)
WeightedSum(hist, lo, hi) ==
    IF lo > hi THEN 0
    ELSE IF lo = hi THEN lo * hist[lo]
    ELSE WeightedSum(hist, lo, (lo + hi) \div 2) + WeightedSum(hist, ((lo + hi) \div 2) + 1, hi)

(* total_pixels taken as the side of the thumbnail *)
TotalPixelsOfSide(side) == side

(* line 677 *)
TotalPixels(side) == side * side

(* lines 678-680: (mean_diff / 255.0) * 100.0 as the fraction num / den *)
LoopScore(data) ==
    [num |-> 100 * WeightedSum(Histogram(data, {data[k] : k \in 1..Len(data)}), 0, 255),
     den |-> 255 * TotalPixels(LOOP_SIDE)]

PxWhite == <<255, 255, 255, 255>>

LoopHalf ==
    MkImage(LOOP_SIDE, LOOP_SIDE,
        [c \in Coords(LOOP_SIDE, LOOP_SIDE) |->
            IF 2 * c[1] < LOOP_SIDE THEN PxBlack ELSE PxWhite])

LoopStripes ==
    MkImage(LOOP_SIDE, LOOP_SIDE,
        [c \in Coords(LOOP_SIDE, LOOP_SIDE) |->
            IF c[2] % 2 = 0 THEN PxLight ELSE PxNear])

LoopFrames ==
    {Solid(LOOP_SIDE, LOOP_SIDE, PxBlack), Solid(LOOP_SIDE, LOOP_SIDE, PxWhite),
     Solid(LOOP_SIDE, LOOP_SIDE, Transparent), LoopHalf, LoopStripes,
     Solid(1, 1, PxLight), Solid(2, 2, PxBlack)}

LoopInit ==
    /\ cmd = "_check_loop_smoothness"
    /\ pc = "call"
    /\ args \in [frame0 : LoopFrames, frame_last : LoopFrames]
    /\ Idle

LoopDifference ==
    /\ cmd = "_check_loop_smoothness"
    /\ pc = "call"
    /\ locals' = [diff |-> LoopDiff(ResizeLanczos(args.frame0, LOOP_SIDE),
                                    ResizeLanczos(args.frame_last, LOOP_SIDE))]
    /\ pc' = "histogram"
    /\ UNCHANGED <<cmd, args, fs, stderr, ret, exit_code>>

LoopReturn ==
    /\ cmd = "_check_loop_smoothness"
    /\ pc = "histogram"
    /\ ret' = LoopScore(locals.diff)
    /\ pc' = "return"
    /\ UNCHANGED <<cmd, args, locals, fs, stderr, exit_code>>

LoopNext == LoopDifference \/ LoopReturn

SpecLoop == LoopInit /\ [][LoopNext]_vars

----------------------------------------------------------------------------
(* analyze_frame (analyze_frame.py): the vision call and its validation *)

MaxVisionSide == 2

_FRAC_FIELDS == <<"feet_y_frac", "head_y_frac", "center_x_frac", "center_y_frac">>

RequiredFields == {_FRAC_FIELDS[k] : k \in 1..4} \cup {"bbox_px"}

(* what json.loads can give: an object, an array, a number (n tenths), an  *)
(* integer too large for a float, NaN, a boolean, a string or null         *)
JNumber(tenths) == [kind |-> "number", n |-> tenths, items |-> <<>>, fields |-> <<>>]

JBigInt == [kind |-> "bigint", n |-> 0, items |-> <<>>, fields |-> <<>>]

JNaN == [kind |-> "nan", n |-> 0, items |-> <<>>, fields |-> <<>>]

JBool(b) == [kind |-> "bool", n |-> IF b THEN 1 ELSE 0, items |-> <<>>, fields |-> <<>>]

JString == [kind |-> "string", n |-> 0, items |-> <<>>, fields |-> <<>>]

JNull == [kind |-> "null", n |-> 0, items |-> <<>>, fields |-> <<>>]

JArray(items) == [kind |-> "array", n |-> 0, items |-> items, fields |-> <<>>]

JObject(fields) == [kind |-> "object", n |-> 0, items |-> <<>>, fields |-> fields]

(* isinstance(val, (int, float)): a bool is an int *)
IsNumeric(val) == val.kind \in {"number", "bigint", "nan", "bool"}

BigIntTenths == 10000000

(* the value of a numeric JSON value in tenths, for comparisons *)
Tenths(val) ==
    CASE val.kind = "number" -> val.n
      [] val.kind = "bool" -> 10 * val.n
      [] val.kind = "bigint" -> BigIntTenths

(* 0.0 <= float(val) <= 1.0: False for NaN *)
InUnitRange(val) == val.kind # "nan" /\ 0 <= Tenths(val) /\ Tenths(val) <= 10

(* 0 <= l < r <= img_w and 0 <= t < b <= img_h: False if any entry is NaN *)
BBoxInImage(bbox, img_w, img_h) ==
    /\ \A k \in 1..4 : bbox[k].kind # "nan"
    /\ 0 <= Tenths(bbox[1]) /\ Tenths(bbox[1]) < Tenths(bbox[3])
    /\ Tenths(bbox[3]) <= 10 * img_w
    /\ 0 <= Tenths(bbox[2]) /\ Tenths(bbox[2]) < Tenths(bbox[4])
    /\ Tenths(bbox[4]) <= 10 * img_h

(* lines 73-78: one frac field's error, if any *)
FracError(val) ==
    IF ~IsNumeric(val) THEN <<"not-a-number">>
    ELSE IF ~InUnitRange(val) THEN <<"out-of-range">>
    ELSE <<>>

(* lines 80-88 *)
BBoxError(bbox, img_w, img_h) ==
    IF ~(bbox.kind = "array" /\ Len(bbox.items) = 4 /\ \A k \in 1..4 : IsNumeric(bbox.items[k]))
    THEN <<"bbox-not-numeric-list">>
    ELSE IF ~BBoxInImage(bbox.items, img_w, img_h) THEN <<"bbox-invalid">>
    ELSE <<>>

(* _validate: the error list, or the exception that leaves it: data.keys() *)
(* needs a dict, and float() of an int beyond the float range overflows    *)
_validate(data, img_w, img_h) ==
    IF data.kind # "object" THEN [raised |-> <<"AttributeError">>, errors |-> <<>>]
    ELSE IF RequiredFields \ DOMAIN data.fields # {}
    THEN [raised |-> None, errors |-> <<"missing-fields">>]
    ELSE IF \E k \in 1..4 : data.fields[_FRAC_FIELDS[k]].kind = "bigint"
    THEN [raised |-> <<"OverflowError">>, errors |-> <<>>]
    ELSE [raised |-> None,
          errors |-> FracError(data.fields[_FRAC_FIELDS[1]]) \o FracError(data.fields[_FRAC_FIELDS[2]])
                     \o FracError(data.fields[_FRAC_FIELDS[3]]) \o FracError(data.fields[_FRAC_FIELDS[4]])
                     \o BBoxError(data.fields["bbox_px"], img_w, img_h)]

(* lines 143-149: float() of the fractions as <<numerator, denominator>>,   *)
(* int() of the box entries                                                 *)
AnchorsOf(data) ==
    [feet_y_frac |-> <<Tenths(data.fields["feet_y_frac"]), 10>>,
     head_y_frac |-> <<Tenths(data.fields["head_y_frac"]), 10>>,
     center_x_frac |-> <<Tenths(data.fields["center_x_frac"]), 10>>,
     center_y_frac |-> <<Tenths(data.fields["center_y_frac"]), 10>>,
     bbox_px |-> [k \in 1..4 |-> IntTrunc(Tenths(data.fields["bbox_px"].items[k]), 10)]]

(* analyze_frame: what the call comes to, given what the service did *)
analyze_frame(response, img_w, img_h) ==
    IF response.kind # "parsed" THEN [raised |-> None, value |-> None]
    ELSE IF _validate(response.data, img_w, img_h).raised # None
    THEN [raised |-> _validate(response.data, img_w, img_h).raised, value |-> None]
    ELSE IF _validate(response.data, img_w, img_h).errors # <<>>
    THEN [raised |-> None, value |-> None]
    ELSE [raised |-> None, value |-> <<AnchorsOf(response.data)>>]

FracValues ==
    {JNumber(0), JNumber(5), JNumber(10), JNumber(11), JNumber(-1),
     JBool(TRUE), JString, JBigInt, JNaN}

BBoxValues ==
    {JArray(<<JNumber(l), JNumber(t), JNumber(r), JNumber(b)>>) :
        l \in {0, 10}, t \in {0, 10}, r \in {0, 10, 20, 30}, b \in {0, 10, 20, 30}}
    \cup {JArray(<<JNumber(2), JNumber(3), JNumber(9), JNumber(8)>>),
          JArray(<<JNumber(-10), JNumber(0), JNumber(10), JNumber(10)>>),
          JArray(<<JNumber(0), JNumber(0), JNumber(10)>>),
          JArray(<<JNumber(0), JNumber(0), JNumber(10), JString>>),
          JArray(<<JNumber(0), JNumber(0), JBigInt, JNumber(10)>>),
          JArray(<<JNumber(0), JNaN, JNumber(10), JNumber(10)>>),
          JArray(<<JBool(FALSE), JBool(FALSE), JBool(TRUE), JBool(TRUE)>>),
          JString, JNull}

(* objects with one field probed over FracValues and the others in range *)
VisionObjects ==
    {JObject([f \in RequiredFields |->
                 IF f = "bbox_px" THEN bbox
                 ELSE IF f = _FRAC_FIELDS[k] THEN val ELSE rest]) :
        k \in 1..4, val \in FracValues, rest \in {JNumber(5), JNumber(10)},
        bbox \in BBoxValues}

VisionData ==
    VisionObjects
    \cup {JObject([f \in RequiredFields \ {g} |-> JNumber(5)]) : g \in RequiredFields}
    \cup {JArray(<<>>), JArray(<<JNumber(5)>>), JNull, JString, JNumber(5), JBool(TRUE)}

VisionResponses ==
    {[kind |-> k, data |-> JNull] : k \in {"no-key", "api-error", "empty", "unparsable"}}
    \cup {[kind |-> "parsed", data |-> d] : d \in VisionData}

AnalyzeInit ==
    /\ cmd = "analyze_frame"
    /\ pc = "call"
    /\ args \in [img_w : 1..MaxVisionSide, img_h : 1..MaxVisionSide, response : VisionResponses]
    /\ Idle

AnalyzeOutcome(outcome) ==
    IF outcome.raised # None
    THEN /\ pc' = "raise"
         /\ stderr' = Append(stderr, [kind |-> "traceback", what |-> outcome.raised[1]])
         /\ UNCHANGED ret
    ELSE /\ pc' = "return"
         /\ ret' = outcome.value
         /\ stderr' = IF outcome.value = None
                      THEN Append(stderr, [kind |-> "warning", what |-> args.response.kind])
                      ELSE stderr

CallAnalyzeFrame ==
    /\ cmd = "analyze_frame"
    /\ pc = "call"
    /\ AnalyzeOutcome(analyze_frame(args.response, args.img_w, args.img_h))
    /\ UNCHANGED <<cmd, args, locals, fs, exit_code>>

AnalyzeNext == CallAnalyzeFrame

SpecAnalyze == AnalyzeInit /\ [][AnalyzeNext]_vars

----------------------------------------------------------------------------
(* Writing frame_{idx:03d}.png for idx = 0 .. count - 1 (the save loops of  *)
(* cut_sprite_sheet and align_frames) and listing the directory in sorted   *)
(* order (the readers in align_frames and combine_frames)                   *)

MaxNameCount == 1001

NameCounts == {1, 11, 101, MaxNameCount - 1, MaxNameCount}

InsertAt(listing, name, k) ==
    SubSeq(listing, 1, k) \o <<name>> \o SubSeq(listing, k + 1, Len(listing))

(* sorted() of a sorted listing with one more name *)
InsertSorted(listing, name) ==
    InsertAt(listing, name, Cardinality({j \in 1..Len(listing) : LexLess(listing[j], name)}))

NamesInit ==
    /\ cmd = "frame_names"
    /\ pc = "start"
    /\ args \in [count : NameCounts]
    /\ Idle

NamesStart ==
    /\ cmd = "frame_names"
    /\ pc = "start"
    /\ locals' = [idx |-> 0, listing |-> <<>>]
    /\ pc' = "write"
    /\ UNCHANGED <<cmd, args, fs, stderr, ret, exit_code>>

(* out_path = out_dir / f"frame_{idx:03d}.png"; save *)
NamesWrite ==
    /\ cmd = "frame_names"
    /\ pc = "write"
    /\ locals.idx < args.count
    /\ locals' = [idx |-> locals.idx + 1,
                  listing |-> InsertSorted(locals.listing, FrameName(locals.idx))]
    /\ UNCHANGED <<cmd, args, pc, fs, stderr, ret, exit_code>>

(* frame_files = sorted(frames_path.glob("*.png")) *)
NamesList ==
    /\ cmd = "frame_names"
    /\ pc = "write"
    /\ locals.idx = args.count
    /\ ret' = locals.listing
    /\ pc' = "listed"
    /\ UNCHANGED <<cmd, args, locals, fs, stderr, exit_code>>

NamesNext == NamesStart \/ NamesWrite \/ NamesList

SpecNames == NamesInit /\ [][NamesNext]_vars

----------------------------------------------------------------------------
(* The placement of one frame (lines 460-541) on canvases of any height *)

MaxPlaceCanvas == 12

PlaceCanvasW == 4

PlaceFrames == {FrameCorner, FrameTopRow, FrameOpaqueDot}

PlaceAnchorData ==
    {<<>>} \cup {[n \in {FrameName(0)} |-> p] : p \in AnchorPoints}

PlaceInit ==
    /\ cmd = "place_frame"
    /\ pc = "call"
    /\ args \in [img : {_remove_bg(f) : f \in PlaceFrames},
                 anchor_data : PlaceAnchorData,
                 pixel_align : BOOLEAN,
                 vision_align : BOOLEAN,
                 vision : VisionAnswers,
                 anchor : {"center", "bottom", "top"},
                 canvas_h : 1..MaxPlaceCanvas]
    /\ Idle

CallPlaceFrame ==
    /\ cmd = "place_frame"
    /\ pc = "call"
    /\ ret' = PlaceFrame(args.img, _get_content_bbox(args.img), FrameName(0), args.anchor_data,
                         args.pixel_align, args.vision_align, args.vision, args.anchor,
                         PlaceCanvasW, args.canvas_h)
    /\ pc' = "return"
    /\ UNCHANGED <<cmd, args, locals, fs, stderr, exit_code>>

PlaceNext == CallPlaceFrame

SpecPlace == PlaceInit /\ [][PlaceNext]_vars

----------------------------------------------------------------------------
(* A call of find_anchor_points *)

MaxAnchorW == 12

MaxAnchorH == 3

(* how many pixels of a row are opaque: none, a stray pixel, a wisp, all *)
RowFills == {0, 1, 2, MaxAnchorW}

(* frames whose rows hold the given numbers of opaque pixels, packed to    *)
(* the left or to the right; the other pixels are clear or faint           *)
AnchorImage(fill, right) ==
    MkImage(MaxAnchorW, MaxAnchorH,
        [c \in Coords(MaxAnchorW, MaxAnchorH) |->
            IF (IF right THEN MaxAnchorW - 1 - c[1] ELSE c[1]) < fill[c[2] + 1] THEN PxBlack
            ELSE IF (c[1] + c[2]) % 2 = 0 THEN PxClear ELSE PxFaint])

AnchorImages ==
    {AnchorImage(fill, right) : fill \in [1..MaxAnchorH -> RowFills], right \in BOOLEAN}

AnchorInit ==
    /\ cmd = "find_anchor_points"
    /\ pc = "call"
    /\ args \in [img : AnchorImages]
    /\ Idle

CallFindAnchorPoints ==
    /\ cmd = "find_anchor_points"
    /\ pc = "call"
    /\ ret' = find_anchor_points(args.img)
    /\ pc' = "return"
    /\ UNCHANGED <<cmd, args, locals, fs, stderr, exit_code>>

AnchorNext == CallFindAnchorPoints

SpecAnchor == AnchorInit /\ [][AnchorNext]_vars

----------------------------------------------------------------------------
(* generate_animation *)

MaxPrompts == 3

(* what one generate_content call can come to: an exception, a response    *)
(* without an image part, a response with an image part                    *)
Outcomes == {"raise", "text", "image"}

(* out_path / f"frame_{i:03d}.png" *)
FramePath(i) == [dir |-> "out", name |-> FrameName(i)]

SeedPath == [dir |-> "refs", name |-> FrameName(0)]

BasePath == [dir |-> "base", name |-> FrameName(0)]

(* lines 92-95: frame_spec["reference_images"] *)
ReferenceImages(base_refs, previous_frame_path) ==
    IF previous_frame_path # None THEN base_refs \o previous_frame_path ELSE base_refs

(* a failed frame forgets the reference chain *)
ReferenceAfterForgetting(previous_frame_path, outcome, filepath) ==
    IF outcome = "image" THEN <<filepath>> ELSE None

(* line 145: previous_frame_path after one pass of the loop *)
ReferenceAfter(previous_frame_path, outcome, filepath) ==
    IF outcome = "image" THEN <<filepath>> ELSE previous_frame_path

AnimationInit ==
    /\ cmd = "generate_animation"
    /\ pc = "start"
    /\ args \in [api_key : BOOLEAN,
                 num_prompts : 0..MaxPrompts,
                 first_frame_reference : {None, <<SeedPath>>},
                 reference_images : {<<>>, <<BasePath>>}]
    /\ Idle

(* lines 62-82: the checks before the loop, the output directory *)
AnimationStart ==
    /\ cmd = "generate_animation"
    /\ pc = "start"
    /\ IF ~args.api_key \/ args.num_prompts = 0
       THEN /\ stderr' = Append(stderr, [kind |-> "exception",
                                         what |-> IF ~args.api_key THEN "EnvironmentError"
                                                  ELSE "ValueError"])
            /\ pc' = "raise"
            /\ UNCHANGED <<locals, fs>>
       ELSE /\ locals' = [i |-> 0,
                          previous_frame_path |-> args.first_frame_reference,
                          saved_frames |-> <<>>,
                          calls |-> <<>>]
            /\ fs' = [fs EXCEPT !.out_dir = TRUE]
            /\ pc' = "loop"
            /\ UNCHANGED stderr
    /\ UNCHANGED <<cmd, args, ret, exit_code>>

(* lines 84-154: one pass of the loop; calls is the list of                *)
(* generate_content calls made so far, each with the references it was     *)
(* given and what came of it                                               *)
AnimationFrame ==
    /\ cmd = "generate_animation"
    /\ pc = "loop"
    /\ locals.i < args.num_prompts
    /\ \E outcome \in Outcomes :
          /\ locals' = [locals EXCEPT
                          !.i = @ + 1,
                          !.calls = Append(@, [i |-> locals.i,
                                               reference_images |->
                                                  ReferenceImages(args.reference_images,
                                                                  locals.previous_frame_path),
                                               outcome |-> outcome]),
                          !.saved_frames = IF outcome = "image"
                                           THEN Append(@, FramePath(locals.i)) ELSE @,
                          !.previous_frame_path =
                              ReferenceAfter(@, outcome, FramePath(locals.i))]
          /\ fs' = IF outcome = "image"
                   THEN [fs EXCEPT !.files = Append(@, [name |-> FrameName(locals.i),
                                                       img |-> "generated"])]
                   ELSE fs
          /\ stderr' = IF outcome = "image" THEN stderr
                       ELSE Append(stderr, [kind |-> IF outcome = "raise" THEN "error"
                                                     ELSE "no-image",
                                            what |-> "frame"])
    /\ UNCHANGED <<cmd, args, pc, ret, exit_code>>

(* line 156 *)
AnimationReturn ==
    /\ cmd = "generate_animation"
    /\ pc = "loop"
    /\ locals.i = args.num_prompts
    /\ ret' = locals.saved_frames
    /\ pc' = "return"
    /\ UNCHANGED <<cmd, args, locals, fs, stderr, exit_code>>

AnimationNext == AnimationStart \/ AnimationFrame \/ AnimationReturn

SpecAnimation == AnimationInit /\ [][AnimationNext]_vars

----------------------------------------------------------------------------
(* The program: any one of the calls above *)

Init == TimingInit \/ BBoxInit \/ GridInit \/ CutInit \/ AlignInit \/ CombineInit

Next == TimingNext \/ BBoxNext \/ GridNext \/ CutNext \/ AlignNext \/ CombineNext

Spec == Init /\ [][Next]_vars

(* The three stages that turn frames into frames: segmentation, alignment  *)
(* and assembly                                                            *)
FramesInit == CutInit \/ AlignInit \/ CombineInit

FramesNext == CutNext \/ AlignNext \/ CombineNext

SpecFrames == FramesInit /\ [][FramesNext]_vars

----------------------------------------------------------------------------
(* Claims about the timing engine *)

TimingReturned == cmd = "_make_timing_list" /\ pc = "return"

(* every frame's exact weighted share total_ms * w / total_weight is >= 10 *)
SharesAtLeastMin ==
    LET weights == Weights(args.num_frames, args.curve)
    IN  \A k \in 1..args.num_frames :
            args.total_ms * weights[k] >= MIN_FRAME_MS * Sum(weights)

----------------------------------------------------------------------------
(* Claims about the foreground classifier *)

BBoxReturned == cmd = "_get_content_bbox" /\ pc = "return"

(* foreground as the documentation defines it: alpha >= 128 when the frame *)
(* has transparency, else a colour distance over the threshold             *)
DocumentedForeground(img) ==
    IF _has_transparency(img)
    THEN {c \in Coords(img.w, img.h) : img.px[c][4] >= ALPHA_FOREGROUND}
    ELSE {c \in Coords(img.w, img.h) :
            ColorDistance(img.px[c], _get_bg_color(img)) > COLOR_THRESHOLD}

(* C10: a returned box has left < right and top < bottom and holds every   *)
(* foreground pixel (alpha >= 128, or colour distance over the threshold); *)
(* None is returned exactly when no pixel is foreground.                   *)
C10_BBoxSound ==
    BBoxReturned =>
        /\ ret # None =>
              /\ ret[1] < ret[3]
              /\ ret[2] < ret[4]
              /\ \A c \in DocumentedForeground(args.img) :
                    /\ ret[1] <= c[1] /\ c[1] < ret[3]
                    /\ ret[2] <= c[2] /\ c[2] < ret[4]
        /\ (ret = None) <=> (DocumentedForeground(args.img) = {})

----------------------------------------------------------------------------
(* Claims about align_frames *)

(* the output loop has just placed a frame that has a content bbox *)
AlignPlaced == cmd = "align_frames" /\ pc \in {"loop", "done"} /\ locals.last # None

PlacedName == locals.frame_files[locals.i]

PlacedBBox == locals.bboxes[locals.i]

PlacedImage == locals.frames[locals.i]

Placed == locals.last[1].placed

InLoadedAnchorFile(name) ==
    /\ args.anchor_file.kind = "loaded"
    /\ name \in DOMAIN args.anchor_file.data

(* C2: a frame with a content bbox whose filename is a key of the loaded   *)
(* anchor file is placed by exactly that entry, translated by the bbox's   *)
(* top-left corner, with source 'anchor-file', whatever pixel_align and    *)
(* vision_align are.                                                       *)
C2_AnchorFileWins ==
    (AlignPlaced /\ InLoadedAnchorFile(PlacedName)) =>
        LET pts == args.anchor_file.data[PlacedName]
            cx == pts.center_x - PlacedBBox[1]
            cy == pts.center_y - PlacedBBox[2]
            fy == pts.feet_y - PlacedBBox[2]
            hy == pts.head_y - PlacedBBox[2]
        IN  /\ Placed.used_mode = "anchor-file"
            /\ Placed.local = [cx_in |-> <<cx, 1>>, cy_in |-> <<cy, 1>>,
                               fy_in |-> <<fy, 1>>, hy_in |-> <<hy, 1>>]
            /\ Placed.paste_x = (locals.canvas_w \div 2) - cx
            /\ Placed.paste_y =
                  CASE args.anchor = "bottom" -> ((locals.canvas_h * 9) \div 10) - fy
                    [] args.anchor = "top" -> (locals.canvas_h \div 10) - hy
                    [] OTHER -> (locals.canvas_h \div 2) - cy

(* a frame found in the anchor file while pixel analysis is enabled and    *)
(* would have produced another anchor                                      *)
C2_Witness ==
    /\ AlignPlaced
    /\ InLoadedAnchorFile(PlacedName)
    /\ args.pixel_align
    /\ args.vision_align
    /\ Placed.used_mode = "anchor-file"
    /\ find_anchor_points(PlacedImage) # None
    /\ PixelAnchor(find_anchor_points(PlacedImage)[1], PlacedBBox[1], PlacedBBox[2])
          # Placed.local

----------------------------------------------------------------------------
(* Claims about the grid inferencer *)

GridReturned == cmd = "_detect_grid" /\ pc = "return"

(* C9 as stated: _detect_grid on any synthetic sheet of cols x rows solid  *)
(* cells on a known background returns exactly (cols, rows).               *)
C9_GridRoundTripAlways ==
    GridReturned => ret = <<args.layout.cols, args.layout.rows>>

(* the sheet's border is background, neighbouring cells are separated by   *)
(* background, every cell colour is more than 30 away from the background  *)
(* and the cells cover at least a tenth of the sheet's width and height    *)
WellSeparatedSheet(l) ==
    /\ l.margin >= 1
    /\ l.gap >= 1 \/ (l.cols = 1 /\ l.rows = 1)
    /\ l.tone > GRID_THRESHOLD
    /\ 10 * l.cols * l.cell_w >= SheetW(l)
    /\ 10 * l.rows * l.cell_h >= SheetH(l)

(* C9 amended: _detect_grid returns exactly (cols, rows) for a synthetic   *)
(* sheet whose border is background, whose cells (when there are several)  *)
(* are separated by at least one background pixel, differ from the         *)
(* background by more than 30 in some channel and cover at least 10% of    *)
(* the sheet's width and height.                                           *)
C9_GridRoundTrip ==
    (GridReturned /\ WellSeparatedSheet(args.layout)) =>
        ret = <<args.layout.cols, args.layout.rows>>

C9_Witness ==
    /\ GridReturned
    /\ WellSeparatedSheet(args.layout)
    /\ args.layout.cols = 2
    /\ args.layout.rows = 2
    /\ args.layout.margin = 5
    /\ ret = <<2, 2>>

----------------------------------------------------------------------------
(* Claims about cut_sprite_sheet *)

CutFinished == cmd = "cut_sprite_sheet" /\ pc \in {"done", "exit"}

(* the grid the call works with: detected, or the explicit --cols/--rows *)
CutGrid ==
    IF args.auto_grid THEN _detect_grid(args.img)
    ELSE IF args.cols = None \/ args.rows = None THEN None
    ELSE <<args.cols[1], args.rows[1]>>

CutCountTooLarge ==
    /\ CutGrid # None
    /\ args.count # None
    /\ args.count[1] > CutGrid[1] * CutGrid[2]

(* C7: with count > cols*rows the call reports an error and halts before   *)
(* the output directory is created or any frame is written; with           *)
(* count <= cols*rows (or no count) it does not raise this error and       *)
(* writes the frames.                                                      *)
C7_CountValidated ==
    /\ (cmd = "cut_sprite_sheet" /\ CutCountTooLarge) =>
          /\ fs = NoFiles
          /\ pc \in {"start", "exit"}
          /\ pc = "exit" =>
                /\ exit_code = <<1>>
                /\ stderr = <<[kind |-> "error", what |-> "count"]>>
    /\ (CutFinished /\ CutGrid # None /\ ~CutCountTooLarge) =>
          /\ pc = "done"
          /\ stderr = <<>>
          /\ fs.out_dir
          /\ Len(fs.files) =
                IF args.count # None THEN args.count[1] ELSE CutGrid[1] * CutGrid[2]

(* a call with count one over the grid's capacity has halted *)
C7_Witness ==
    /\ cmd = "cut_sprite_sheet"
    /\ pc = "exit"
    /\ CutGrid = <<2, 2>>
    /\ args.count = <<5>>
    /\ fs = NoFiles

----------------------------------------------------------------------------
(* Claims about combine_frames *)

CombineEncoded == cmd = "combine_frames" /\ pc \in {"resize", "done"}

(* a step of the auto-resize loop that encodes again *)
ReEncodes ==
    /\ cmd = "combine_frames"
    /\ pc = "resize"
    /\ pc' = "resize"
    /\ locals'.encodes = locals.encodes + 1

(* C5: with auto_resize, a re-encode happens only when the most recently   *)
(* encoded artifact exceeds the byte budget of 1 MiB, at most 3 re-encodes *)
(* happen, and none follows an artifact that does not exceed the budget;   *)
(* without auto_resize exactly one encode happens.                         *)
C5_ReEncodeOnlyOverBudget ==
    /\ [][ReEncodes => (args.auto_resize /\ fs.files[1].size > _LINE_APNG_MAX_BYTES)]_vars
    /\ [](CombineEncoded => locals.encodes <= 1 + MAX_RESIZE_ATTEMPTS)
    /\ []((CombineEncoded /\ pc = "done" /\ ~args.auto_resize) => locals.encodes = 1)

(* C6: an artifact still over the byte budget when the retries are used up *)
(* (or auto_resize is off) stays at the output path, the call finishes     *)
(* without an error exit, and the validation report is FAIL with the       *)
(* byte-size check failing.                                                *)
C6_OverBudgetStillEmitted ==
    /\ (CombineEncoded /\ pc = "resize") => exit_code = None
    /\ (CombineEncoded /\ pc = "done" /\ fs.files[1].size > _LINE_APNG_MAX_BYTES) =>
          /\ ~args.auto_resize \/ locals.encodes = 1 + MAX_RESIZE_ATTEMPTS
          /\ exit_code = <<0>>
          /\ Len(fs.files) = 1
          /\ fs.files[1].frames = locals.current_frames
          /\ Len(stderr) = 1
          /\ stderr[1].kind = "validation"
          /\ stderr[1].status = "FAIL"
          /\ ~stderr[1].ok_bytes

(* three retries were made, the last artifact is still over budget while   *)
(* every other check passes                                                *)
C6_Witness ==
    /\ CombineEncoded
    /\ pc = "done"
    /\ args.auto_resize
    /\ locals.encodes = 4
    /\ fs.files[1].size > _LINE_APNG_MAX_BYTES
    /\ stderr[1].ok_size /\ stderr[1].ok_frames /\ stderr[1].ok_dur
    /\ stderr[1].status = "FAIL"

(* the --timing value is a comma-separated list of integers *)
TimingIsIntegerList ==
    /\ args.timing.kind = "text"
    /\ \A k \in 1..Len(Split(args.timing.text)) : ParseInt(Split(args.timing.text)[k]) # None

TimingIntegers ==
    [k \in 1..Len(Split(args.timing.text)) |-> ParseInt(Split(args.timing.text)[k])[1]]

(* C8: an explicit duration list whose length differs from the number of   *)
(* frames makes the call fail before the output file is written; a list of *)
(* exactly num_frames integers is used verbatim as the per-frame durations.*)
C8_ExplicitTimingList ==
    (cmd = "combine_frames" /\ pc # "start" /\ TimingIsIntegerList) =>
        IF Len(TimingIntegers) # Cardinality(DOMAIN args.dir)
        THEN /\ pc = "exit"
             /\ exit_code = <<1>>
             /\ fs = NoFiles
        ELSE /\ pc # "exit"
             /\ locals.frame_durations = TimingIntegers
             /\ locals.total_ms = Sum(TimingIntegers)
             /\ fs.files # <<>> => fs.files[1].durations = TimingIntegers

(* the list " 75 ,-5" for two frames has been encoded as 75 ms and -5 ms *)
C8_Witness ==
    /\ cmd = "combine_frames"
    /\ pc = "done"
    /\ args.timing.kind = "text"
    /\ args.timing.text = <<" ", "7", "5", " ", ",", "-", "5">>
    /\ args.rate.duration = <<5000>>
    /\ fs.files[1].durations = <<75, 0 - 5>>

----------------------------------------------------------------------------
(* Claims about frame-count invariance *)

(* the k-th name of a directory in string order: k - 1 names sort before it *)
NthName(D, k) == CHOOSE n \in D : Cardinality({m \in D : LexLess(m, n)}) = k - 1

(* the k-th input of align_frames as it is loaded, and its content bbox *)
AlignInput(k) == _remove_bg(args.dir[NthName(DOMAIN args.dir, k)])

AlignInputCount == Cardinality(DOMAIN args.dir)

SomeInputHasContent ==
    \E k \in 1..AlignInputCount : _get_content_bbox(AlignInput(k)) # None

(* output k is a canvas of the target size that is fully transparent when  *)
(* input k has no content bbox, and input k's content pasted at some       *)
(* offset otherwise (an offset outside the range below leaves the canvas   *)
(* empty, as the two ends of the range do)                                 *)
AlignOutputFromInput(k) ==
    LET out == fs.files[k].img
        src == AlignInput(k)
        bbox == _get_content_bbox(src)
        canvas == Solid(locals.canvas_w, locals.canvas_h, Transparent)
    IN  /\ fs.files[k].name = FrameName(k - 1)
        /\ out.w = locals.canvas_w
        /\ out.h = locals.canvas_h
        /\ args.canvas[1] # None => out.w = args.canvas[1][1]
        /\ args.canvas[2] # None => out.h = args.canvas[2][1]
        /\ IF bbox = None THEN out = canvas
           ELSE \E x \in (bbox[1] - bbox[3])..locals.canvas_w,
                      y \in (bbox[2] - bbox[4])..locals.canvas_h :
                   out = Paste(canvas, Crop(src, bbox), x, y)

AlignOutputsInOrder ==
    (cmd = "align_frames" /\ pc \in {"loop", "done"}) =>
        /\ Len(fs.files) <= AlignInputCount
        /\ pc = "done" => Len(fs.files) = AlignInputCount
        /\ \A k \in 1..Len(fs.files) : AlignOutputFromInput(k)

(* cut_sprite_sheet: frame k is cut from cell k - 1, counted row by row *)
CutOutputsInOrder ==
    (cmd = "cut_sprite_sheet" /\ pc \in {"loop", "done"}) =>
        /\ Len(fs.files) <= locals.frame_count
        /\ pc = "done" =>
              Len(fs.files) = IF args.count # None THEN args.count[1]
                              ELSE locals.cols * locals.rows
        /\ \A k \in 1..Len(fs.files) :
              \E col \in 0..(locals.cols - 1), row \in 0..(locals.rows - 1) :
                 /\ k - 1 = row * locals.cols + col
                 /\ fs.files[k].name = FrameName(k - 1)
                 /\ fs.files[k].img =
                       CutFrame(args.img,
                                <<col * locals.frame_w, row * locals.frame_h,
                                  (col + 1) * locals.frame_w, (row + 1) * locals.frame_h>>,
                                args.simple)

(* combine_frames: every encode holds the directory's frames in string order *)
CombineEncodesInOrder ==
    CombineEncoded =>
        /\ Len(fs.files[1].frames) = Cardinality(DOMAIN args.dir)
        /\ \A k \in 1..Len(fs.files[1].frames) :
              fs.files[1].frames[k].src = NthName(DOMAIN args.dir, k)

----------------------------------------------------------------------------
(* Claims about centring *)

(* one frame of 100 x 100 is aligned by its bbox on a 220 x 220 canvas     *)
(* with anchor center                                                      *)
SquareCentred ==
    /\ cmd = "align_frames"
    /\ DOMAIN args.dir = {FrameName(0)}
    /\ args.dir[FrameName(0)].w = SquareSide
    /\ args.dir[FrameName(0)].h = SquareSide
    /\ args.canvas = <<<<SquareCanvas>>, <<SquareCanvas>>>>
    /\ args.anchor = "center"
    /\ args.anchor_file.kind = "absent"
    /\ ~args.pixel_align
    /\ ~(args.vision_align /\ args.vision_available)

FullyOpaque(img) == \A c \in Coords(img.w, img.h) : img.px[c][4] = 255

(* the content was pasted with its top-left corner at (60, 60) *)
PastedAtSixty ==
    /\ pc \in {"loop", "done"}
    /\ pc = "done" =>
          /\ Len(fs.files) = 1
          /\ stderr = <<[kind |-> "frame", i |-> 0, used_mode |-> "bbox",
                         paste |-> <<60, 60>>]>>
          /\ fs.files[1].img.w = SquareCanvas
          /\ fs.files[1].img.h = SquareCanvas
          /\ \A c \in Coords(SquareCanvas, SquareCanvas) :
                fs.files[1].img.px[c] =
                    IF c[1] \in 60..159 /\ c[2] \in 60..159
                    THEN locals.frames[1].px[<<c[1] - 60, c[2] - 60>>]
                    ELSE Transparent

(* C11 as stated: a single fully-opaque 100x100 square frame aligned on a  *)
(* 220x220 canvas with vertical_anchor=center is pasted at                 *)
(* paste_x = paste_y = 60.                                                 *)
C11_OpaqueSquareAtSixty ==
    (SquareCentred /\ FullyOpaque(args.dir[FrameName(0)]) /\ pc # "start") =>
        PastedAtSixty

(* C11, amended: a single 100x100 frame whose content bbox is the whole    *)
(* frame is pasted at paste_x = paste_y = 60; a fully-opaque frame of one  *)
(* colour is all background, and the call reports an error and writes      *)
(* nothing.                                                                *)
C11_FullContentAtSixty ==
    /\ (SquareCentred /\ pc # "start"
          /\ _get_content_bbox(_remove_bg(args.dir[FrameName(0)]))
                = <<0, 0, SquareSide, SquareSide>>) =>
          PastedAtSixty
    /\ (SquareCentred /\ pc # "start" /\ args.dir[FrameName(0)] = SquareSolid) =>
          /\ pc = "exit"
          /\ exit_code = <<1>>
          /\ fs = NoFiles

(* the fully-opaque frame with the diagonal has been written, centred *)
C11_Witness ==
    /\ SquareCentred
    /\ pc = "done"
    /\ args.dir[FrameName(0)] = SquareDiagonal
    /\ FullyOpaque(args.dir[FrameName(0)])
    /\ fs.files[1].img.px[<<60, 60>>] = PxBlack
    /\ fs.files[1].img.px[<<159, 159>>] = PxBlack
    /\ fs.files[1].img.px[<<59, 59>>] = Transparent
    /\ stderr[1].paste = <<60, 60>>

----------------------------------------------------------------------------
(* Claims about chroma-key removal *)

ChromaGreen == <<0, 255, 0>>

ChromaReturned == cmd = "remove_chroma_key" /\ pc = "return"

ChromaDistance(p, key) ==
    LET dr == IF p[1] >= key[1] THEN p[1] - key[1] ELSE key[1] - p[1]
        dg == IF p[2] >= key[2] THEN p[2] - key[2] ELSE key[2] - p[2]
        db == IF p[3] >= key[3] THEN p[3] - key[3] ELSE key[3] - p[3]
    IN  CHOOSE d \in {dr, dg, db} : d >= dr /\ d >= dg /\ d >= db

ChromaKeyOf(chroma_color) ==
    IF chroma_color = <<"#", "F", "F", "0", "0", "0", "0">> THEN <<255, 0, 0>> ELSE ChromaGreen

(* C12: with feather radius 0, remove_chroma_key keeps the size and the     *)
(* colour channels and sets each pixel's alpha to 0 when its largest        *)
(* per-channel distance from the key colour is <= tolerance and to 255      *)
(* otherwise, whatever the pixel's input alpha; a solid #00FF00 50 x 50     *)
(* image with key #00FF00 and tolerance 40 becomes fully transparent and a  *)
(* solid #FF0000 one becomes fully opaque                                   *)
C12_ChromaAlphaByDistance ==
    ChromaReturned =>
        /\ ret.w = args.img.w /\ ret.h = args.img.h
        /\ \A c \in Coords(ret.w, ret.h) :
              LET p == args.img.px[c]
              IN  ret.px[c] =
                    <<p[1], p[2], p[3],
                      IF ChromaDistance(p, ChromaKeyOf(args.chroma_color)) <= args.tolerance
                      THEN 0 ELSE 255>>
        /\ (ChromaKeyOf(args.chroma_color) = ChromaGreen /\ args.tolerance = 40) =>
              /\ args.img = Solid(ChromaSide, ChromaSide, PxGreen) =>
                    \A c \in Coords(ChromaSide, ChromaSide) : ret.px[c][4] = 0
              /\ args.img = Solid(ChromaSide, ChromaSide, PxRed) =>
                    \A c \in Coords(ChromaSide, ChromaSide) : ret.px[c][4] = 255

(* a 2 x 1 image whose first pixel is transparent on input and exactly     *)
(* `tolerance` away from the key, and whose second is one step further     *)
C12_Witness ==
    /\ ChromaReturned
    /\ args.tolerance = 40
    /\ args.chroma_color = <<"#", "0", "0", "F", "F", "0", "0">>
    /\ args.img.w = 2 /\ args.img.h = 1
    /\ args.img.px[<<0, 0>>] = PxGreenEdge
    /\ args.img.px[<<1, 0>>] = PxGreenOff
    /\ ret.px[<<0, 0>>][4] = 0
    /\ ret.px[<<1, 0>>][4] = 255

----------------------------------------------------------------------------
(* Claims about the loop continuity score *)

LoopReturned == cmd = "_check_loop_smoothness" /\ pc = "return"

(* C13: _check_loop_smoothness returns a value in [0, 100] for every pair   *)
(* of frames, and exactly 0 when the first and the last frame are identical *)
C13_LoopScoreRange ==
    LoopReturned =>
        /\ ret.den > 0
        /\ 0 <= ret.num
        /\ ret.num <= 100 * ret.den
        /\ args.frame0 = args.frame_last => ret.num = 0

(* the same patterned frame twice scores 0, where black against white      *)
(* would score 100                                                          *)
C13_Witness ==
    /\ LoopReturned
    /\ args.frame0 = LoopHalf
    /\ args.frame_last = LoopHalf
    /\ ret.num = 0
    /\ locals.diff = [k \in 1..(LOOP_SIDE * LOOP_SIDE) |-> 0]

----------------------------------------------------------------------------
(* Claims about the validation report *)

(* C14: the report printed at the end of combine_frames is PASS exactly     *)
(* when the artifact is at most 320 x 270, has 5 to 20 frames, lasts at     *)
(* most 4000 ms and its byte size is within 1 MiB, and FAIL otherwise; the  *)
(* artifact is on disk when the report is printed and stays as encoded      *)
C14_PassIffWithinLimits ==
    (cmd = "combine_frames" /\ pc = "done") =>
        LET report == stderr[Len(stderr)]
            artifact == fs.files[1]
        IN  /\ Len(fs.files) = 1
            /\ exit_code = <<0>>
            /\ report.kind = "validation"
            /\ report.status \in {"PASS", "FAIL"}
            /\ report.status = "PASS" <=>
                  /\ artifact.frames[1].w <= 320
                  /\ artifact.frames[1].h <= 270
                  /\ 5 <= Len(artifact.frames)
                  /\ Len(artifact.frames) <= 20
                  /\ Sum(artifact.durations) <= 4000
                  /\ artifact.size <= 1024 * 1024

----------------------------------------------------------------------------
(* Claims about the vision response *)

AnalyzeFinished == cmd = "analyze_frame" /\ pc # "call"

(* a finite number, counting a JSON boolean as Python does *)
FiniteNumber(val) == val.kind \in {"number", "bool"}

FractionOk(val) == FiniteNumber(val) /\ 0 <= Tenths(val) /\ Tenths(val) <= 10

WellFormedResponse(data, img_w, img_h) ==
    /\ data.kind = "object"
    /\ RequiredFields \subseteq DOMAIN data.fields
    /\ \A k \in 1..4 : FractionOk(data.fields[_FRAC_FIELDS[k]])
    /\ LET bbox == data.fields["bbox_px"]
       IN  /\ bbox.kind = "array"
           /\ Len(bbox.items) = 4
           /\ \A k \in 1..4 : FiniteNumber(bbox.items[k])
           /\ 0 <= Tenths(bbox.items[1]) /\ Tenths(bbox.items[1]) < Tenths(bbox.items[3])
           /\ Tenths(bbox.items[3]) <= 10 * img_w
           /\ 0 <= Tenths(bbox.items[2]) /\ Tenths(bbox.items[2]) < Tenths(bbox.items[4])
           /\ Tenths(bbox.items[4]) <= 10 * img_h

(* C15: for every parsed vision response analyze_frame returns, without    *)
(* raising; it returns a result only if the four fractions are numbers in  *)
(* [0, 1] and the box satisfies 0 <= left < right <= width and             *)
(* 0 <= top < bottom <= height, and returns None on any violation or       *)
(* missing field, as it does when the call fails                           *)
C15_InvalidResponseYieldsNone ==
    AnalyzeFinished =>
        /\ pc = "return"
        /\ ret # None => /\ args.response.kind = "parsed"
                         /\ WellFormedResponse(args.response.data, args.img_w, args.img_h)
        /\ (args.response.kind = "parsed"
              /\ ~WellFormedResponse(args.response.data, args.img_w, args.img_h)) => ret = None
        /\ args.response.kind # "parsed" => ret = None

(* the same statement for the responses that are JSON objects whose        *)
(* fraction fields fit a float                                             *)
C15_ObjectResponsesValidated ==
    (AnalyzeFinished /\ args.response.kind = "parsed" /\ args.response.data.kind = "object"
        /\ \A f \in DOMAIN args.response.data.fields : args.response.data.fields[f].kind # "bigint") =>
        /\ pc = "return"
        /\ ret # None <=> WellFormedResponse(args.response.data, args.img_w, args.img_h)

----------------------------------------------------------------------------
(* Claims about per-frame vision failures *)

(* C16: with vision alignment enabled, whatever the vision call does for a *)
(* frame, the loop goes on: a failed call only makes that frame use the    *)
(* bbox strategy, every frame up to the current one has its canvas written *)
(* and the call ends with one canvas per input frame                       *)
C16_VisionFailureOnlyDowngrades ==
    (cmd = "align_frames" /\ pc \notin {"start", "exit"} /\ locals.vision_align) =>
        /\ pc \in {"loop", "done"}
        /\ Len(fs.files) = locals.i
        /\ pc = "done" => Len(fs.files) = Len(locals.frames)
        /\ (locals.last # None /\ locals.last[1].calls_vision /\ locals.last[1].vision = None) =>
              locals.last[1].placed.used_mode = "bbox"

----------------------------------------------------------------------------
(* Claims about the default uniform durations *)

(* combine_frames has encoded, on the default uniform path, with a         *)
(* requested total duration                                                *)
UniformEncoded ==
    /\ cmd = "combine_frames"
    /\ pc \in {"resize", "done"}
    /\ args.timing.kind = "none"
    /\ args.rate.duration # None

RequestedDuration == args.rate.duration[1]

EncodedDurations == fs.files[1].durations

(* C17 as stated: on the default uniform path with a requested total       *)
(* duration D the durations handed to the encoder are as many as the       *)
(* frames, all positive, and sum to exactly D                              *)
C17_UniformSumsToRequested ==
    UniformEncoded =>
        /\ Len(EncodedDurations) = Cardinality(DOMAIN args.dir)
        /\ \A k \in 1..Len(EncodedDurations) : EncodedDurations[k] > 0
        /\ Sum(EncodedDurations) = RequestedDuration

(* C17: on the default uniform path with a requested total duration D and  *)
(* N frames, the N durations handed to the encoder all equal the floor of  *)
(* D / N; they sum to D minus the remainder of D by N, which is D exactly  *)
(* when N divides D, and they are positive exactly when D >= N             *)
C17_UniformFloorShare ==
    UniformEncoded =>
        LET n == Cardinality(DOMAIN args.dir)
            share == CHOOSE q \in 0..RequestedDuration :
                        q * n <= RequestedDuration /\ RequestedDuration < (q + 1) * n
        IN  /\ Len(EncodedDurations) = n
            /\ \A k \in 1..n : EncodedDurations[k] = share
            /\ Sum(EncodedDurations) = RequestedDuration - (RequestedDuration % n)
            /\ Sum(EncodedDurations) = RequestedDuration <=> RequestedDuration % n = 0
            /\ (\A k \in 1..n : EncodedDurations[k] > 0) <=> RequestedDuration >= n
            /\ locals.total_ms = Sum(EncodedDurations)

(* three frames sharing 100 ms get 33 ms each, 99 ms in all *)
C17_Witness ==
    /\ UniformEncoded
    /\ pc = "done"
    /\ RequestedDuration = 100
    /\ EncodedDurations = <<33, 33, 33>>
    /\ locals.total_ms = 99

----------------------------------------------------------------------------
(* Claims about frame file names *)

(* C18: for every number of frames N written under the names               *)
(* frame_{idx:03d}.png, the sorted directory listing gives the frames in   *)
(* index order 0 .. N-1                                                    *)
C18_SortedIsIndexOrder ==
    (cmd = "frame_names" /\ pc = "listed") =>
        /\ Len(ret) = args.count
        /\ \A k \in 1..args.count : ret[k] = FrameName(k - 1)

(* up to 1000 frames the three digits keep the order *)
C18_OrderUpToThousand ==
    (cmd = "frame_names" /\ pc = "listed" /\ args.count <= 1000) =>
        /\ Len(ret) = args.count
        /\ \A k \in 1..args.count : ret[k] = FrameName(k - 1)

----------------------------------------------------------------------------
(* Claims about the anchor lines *)

FramePlaced == cmd = "place_frame" /\ pc = "return"

PlaceContentH == _get_content_bbox(args.img)[4] - _get_content_bbox(args.img)[2]

(* feet_y_local and head_y_local as fractions <<numerator, denominator>>:  *)
(* the content height and 0 under the bbox strategy                        *)
FeetLocal == IF ret.used_mode = "bbox" THEN <<PlaceContentH, 1>> ELSE ret.local.fy_in

HeadLocal == IF ret.used_mode = "bbox" THEN <<0, 1>> ELSE ret.local.hy_in

(* the integer part of p / q, q > 0, dropping the fraction toward zero *)
TowardZero(p, q) ==
    CHOOSE z \in (0 - Abs(p))..Abs(p) :
        /\ Abs(z) * q <= Abs(p)
        /\ Abs(p) < (Abs(z) + 1) * q
        /\ (p >= 0 => z >= 0)
        /\ (p < 0 => z <= 0)

(* C19 as stated: paste_y = round(canvas_height * 0.9) - feet_y_local      *)
(* under 'bottom' and round(canvas_height * 0.1) - head_y_local under      *)
(* 'top', for every canvas height and anchor strategy                      *)
C19_RoundedAnchorLines ==
    FramePlaced =>
        /\ args.anchor = "bottom" =>
              ret.paste_y * FeetLocal[2]
                 = RoundHalfEven(args.canvas_h * 9, 10) * FeetLocal[2] - FeetLocal[1]
        /\ args.anchor = "top" =>
              ret.paste_y * HeadLocal[2]
                 = RoundHalfEven(args.canvas_h, 10) * HeadLocal[2] - HeadLocal[1]

(* C19: for every canvas height and anchor strategy, paste_y is            *)
(* int(canvas_height * 0.9) - int(feet_y_local) under 'bottom' and         *)
(* int(canvas_height * 0.1) - int(head_y_local) under 'top', int dropping  *)
(* the fraction toward zero; under the bbox strategy feet_y_local is the   *)
(* content height and head_y_local is 0                                    *)
C19_TruncatedAnchorLines ==
    FramePlaced =>
        /\ args.anchor = "bottom" =>
              ret.paste_y = TowardZero(args.canvas_h * 9, 10) - TowardZero(FeetLocal[1], FeetLocal[2])
        /\ args.anchor = "top" =>
              ret.paste_y = TowardZero(args.canvas_h, 10) - TowardZero(HeadLocal[1], HeadLocal[2])

(* a canvas 4 high: the feet line is int(3.6) = 3, where rounding gives 4  *)
C19_Witness ==
    /\ FramePlaced
    /\ args.anchor = "bottom"
    /\ args.canvas_h = 4
    /\ ret.used_mode = "bbox"
    /\ ret.paste_y = 3 - PlaceContentH
    /\ RoundHalfEven(args.canvas_h * 9, 10) = 4

----------------------------------------------------------------------------
(* Claims about the weighted share *)

TimingWeights == Weights(args.num_frames, args.curve)

(* C20 as stated: every duration but the last equals                       *)
(* max(10, round(total_ms * weight_i / sum(weights)))                      *)
C20_ShareRounded ==
    TimingReturned =>
        \A k \in 1..(args.num_frames - 1) :
            ret[k] = Max(10, RoundHalfEven(args.total_ms * TimingWeights[k], Sum(TimingWeights)))

(* C20: every duration but the last equals                                 *)
(* max(10, int(total_ms * weight_i / sum(weights))): the weighted share    *)
(* with its fraction dropped, never rounded up                             *)
C20_ShareTruncated ==
    TimingReturned =>
        \A k \in 1..(args.num_frames - 1) :
            LET whole == CHOOSE q \in 0..args.total_ms :
                            /\ q * Sum(TimingWeights) <= args.total_ms * TimingWeights[k]
                            /\ args.total_ms * TimingWeights[k] < (q + 1) * Sum(TimingWeights)
            IN  /\ ret[k] = IF whole >= 10 THEN whole ELSE 10
                /\ ret[k] * Sum(TimingWeights) <= Max(10 * Sum(TimingWeights),
                                                      args.total_ms * TimingWeights[k])

(* 200 ms over three uniform frames: 66 ms each for the first two, where   *)
(* rounding 66.67 would give 67                                            *)
C20_Witness ==
    /\ TimingReturned
    /\ args.curve = "uniform"
    /\ args.num_frames = 3
    /\ args.total_ms = 200
    /\ ret[1] = 66
    /\ ret[2] = 66
    /\ RoundHalfEven(args.total_ms * TimingWeights[1], Sum(TimingWeights)) = 67

----------------------------------------------------------------------------
(* Claims about the shape of the easing weights *)

(* the weights are mirrored about the middle of the sequence *)
WeightsSymmetric(weights) ==
    \A k \in 1..Len(weights) : weights[k] = weights[Len(weights) + 1 - k]

(* the frames strictly between the first and the last *)
MiddleFrames(weights) == 2..(Len(weights) - 1)

(* C21 as stated: for num_frames >= 3 the ease-in-out weights are          *)
(* symmetric about the middle with the first and last frames given more    *)
(* time than the middle frames, and the bounce weights are symmetric with  *)
(* the middle frames given more time than the first and last               *)
C21_EaseShapesSymmetric ==
    (TimingReturned /\ args.num_frames >= 3) =>
        /\ args.curve = "ease-in-out" =>
              /\ WeightsSymmetric(TimingWeights)
              /\ \A m \in MiddleFrames(TimingWeights) :
                    /\ TimingWeights[1] > TimingWeights[m]
                    /\ TimingWeights[Len(TimingWeights)] > TimingWeights[m]
        /\ args.curve = "bounce" =>
              /\ WeightsSymmetric(TimingWeights)
              /\ \A m \in MiddleFrames(TimingWeights) :
                    /\ TimingWeights[1] < TimingWeights[m]
                    /\ TimingWeights[Len(TimingWeights)] < TimingWeights[m]

----------------------------------------------------------------------------
(* Claims about the sizes of the auto-resize attempts *)

(* floor(0.8 * side), without floating point *)
EightyPercentFloor(side) ==
    CHOOSE q \in 0..side : 5 * q <= 4 * side /\ 4 * side < 5 * (q + 1)

(* the artifact holds every original frame, in order, at one size w x h *)
EncodesOriginalsAt(artifact, w, h) ==
    /\ Len(artifact.frames) = Len(locals.frames)
    /\ \A k \in 1..Len(artifact.frames) :
          /\ artifact.frames[k].src = locals.frames[k].src
          /\ artifact.frames[k].w = w
          /\ artifact.frames[k].h = h

(* C22 as stated: each retry re-encodes every original frame at            *)
(* floor(0.8 * w) x floor(0.8 * h) of the preceding attempt's w x h, and   *)
(* each side is at least 1                                                 *)
C22_RetryFloorOfPreceding ==
    [][ReEncodes =>
          LET w == EightyPercentFloor(fs.files[1].frames[1].w)
              h == EightyPercentFloor(fs.files[1].frames[1].h)
          IN  /\ EncodesOriginalsAt(fs'.files[1], w, h)
              /\ w >= 1
              /\ h >= 1]_vars

(* C22: each retry re-encodes every original frame, in order, at           *)
(* max(1, floor(0.8 * w)) x max(1, floor(0.8 * h)) of the preceding        *)
(* attempt's w x h (the first encode being at the original size): a side   *)
(* is never below 1 and never larger than the preceding attempt's          *)
C22_RetryClampedFloorOfPreceding ==
    [][ReEncodes =>
          LET pw == fs.files[1].frames[1].w
              ph == fs.files[1].frames[1].h
              w == IF EightyPercentFloor(pw) >= 1 THEN EightyPercentFloor(pw) ELSE 1
              h == IF EightyPercentFloor(ph) >= 1 THEN EightyPercentFloor(ph) ELSE 1
          IN  /\ EncodesOriginalsAt(fs.files[1], pw, ph)
              /\ locals.encodes = 1 => (pw = locals.frames[1].w /\ ph = locals.frames[1].h)
              /\ EncodesOriginalsAt(fs'.files[1], w, h)
              /\ 1 <= w /\ w <= pw
              /\ 1 <= h /\ h <= ph]_vars

(* three retries from 320 x 270: 256 x 216, then 204 x 172, then 163 x 137 *)
C22_Witness ==
    /\ CombineEncoded
    /\ locals.encodes = 1 + MAX_RESIZE_ATTEMPTS
    /\ locals.frames[1].w = 320
    /\ locals.frames[1].h = 270
    /\ EncodesOriginalsAt(fs.files[1], 163, 137)

----------------------------------------------------------------------------
(* Claims about the foreground threshold *)

(* the pixels _remove_bg leaves visible in an opaque frame *)
KeptByRemoveBg(img) ==
    {c \in Coords(img.w, img.h) : _remove_bg(img).px[c][4] > 0}

(* C23 as stated: in a frame without meaningful transparency both          *)
(* _get_content_bbox and _remove_bg take a pixel as foreground exactly     *)
(* when its largest per-channel distance from the estimated background     *)
(* exceeds 30 (a pixel at distance exactly 30 is background); in a frame   *)
(* whose minimum alpha is below 250 a pixel is foreground exactly when its *)
(* alpha is at least 128                                                   *)
C23_ForegroundOverThreshold ==
    BBoxReturned =>
        /\ ret = GetBBox(DocumentedForeground(args.img))
        /\ ~_has_transparency(args.img) =>
              KeptByRemoveBg(args.img) = DocumentedForeground(args.img)
        /\ _has_transparency(args.img) =>
              DocumentedForeground(args.img) =
                 {c \in Coords(args.img.w, args.img.h) : args.img.px[c][4] >= 128}

----------------------------------------------------------------------------
(* Claims about the cells of a raw cut *)

CutRawWriting == cmd = "cut_sprite_sheet" /\ pc \in {"loop", "done"} /\ args.simple

RawCellW == args.img.w \div CutGrid[1]

RawCellH == args.img.h \div CutGrid[2]

RawCellLeft(idx) == (idx % CutGrid[1]) * RawCellW

RawCellTop(idx) == (idx \div CutGrid[1]) * RawCellH

(* the pixels of the sheet that lie in the rectangle of cell idx *)
RawCellArea(idx) ==
    {c \in Coords(args.img.w, args.img.h) :
        /\ RawCellLeft(idx) <= c[1] /\ c[1] < RawCellLeft(idx) + RawCellW
        /\ RawCellTop(idx) <= c[2] /\ c[2] < RawCellTop(idx) + RawCellH}

(* C24: in raw mode the idx-th frame written is the sheet rectangle with   *)
(* left = (idx mod cols) * floor(W / cols), top = (idx div cols) *         *)
(* floor(H / rows), width floor(W / cols) and height floor(H / rows), for  *)
(* idx = 0..count-1; the cells are pairwise disjoint, lie inside the sheet *)
(* and are read row by row                                                 *)
C24_RawCellsRowMajor ==
    CutRawWriting =>
        /\ Len(fs.files) <= (IF args.count # None THEN args.count[1]
                             ELSE CutGrid[1] * CutGrid[2])
        /\ pc = "done" => Len(fs.files) = (IF args.count # None THEN args.count[1]
                                           ELSE CutGrid[1] * CutGrid[2])
        /\ \A k \in 1..Len(fs.files) :
              LET frame == fs.files[k].img
              IN  /\ fs.files[k].name = FrameName(k - 1)
                  /\ frame.w = RawCellW
                  /\ frame.h = RawCellH
                  /\ \A c \in Coords(frame.w, frame.h) :
                        frame.px[c] =
                           args.img.px[<<RawCellLeft(k - 1) + c[1], RawCellTop(k - 1) + c[2]>>]
                  /\ Cardinality(RawCellArea(k - 1)) = RawCellW * RawCellH
                  /\ \A j \in 1..(k - 1) : RawCellArea(j - 1) \cap RawCellArea(k - 1) = {}

(* a raw cut of a 2 x 2 grid is done: the third frame is the first cell of *)
(* the second row, and it differs from the cell above it                   *)
C24_Witness ==
    /\ CutRawWriting
    /\ pc = "done"
    /\ CutGrid = <<2, 2>>
    /\ Len(fs.files) = 4
    /\ RawCellLeft(2) = 0
    /\ RawCellTop(2) = RawCellH
    /\ fs.files[3].img # fs.files[1].img

----------------------------------------------------------------------------
(* Claims about cells without content *)

CutContentAwareWriting ==
    cmd = "cut_sprite_sheet" /\ pc \in {"loop", "done"} /\ ~args.simple

(* the sheet rectangle of the cell that frame k (from 1) is cut from *)
CutCellOf(k) ==
    Crop(args.img, CellBox(k - 1, locals.cols, locals.frame_w, locals.frame_h))

(* no content bbox is detected in the cell once its background is removed *)
CellEmpty(cell) == _get_content_bbox(_remove_bg(cell)) = None

(* C25 as stated: in content-aware mode every cell in which no content     *)
(* bbox is detected is written as a frame of the cell's width and height   *)
(* in which every pixel has alpha 0, and no cell is dropped from the       *)
(* output sequence                                                         *)
C25_EmptyCellFullyTransparent ==
    CutContentAwareWriting =>
        /\ Len(fs.files) = locals.idx
        /\ pc = "done" => Len(fs.files) = locals.frame_count
        /\ \A k \in 1..Len(fs.files) :
              CellEmpty(CutCellOf(k)) =>
                 /\ fs.files[k].name = FrameName(k - 1)
                 /\ fs.files[k].img.w = locals.frame_w
                 /\ fs.files[k].img.h = locals.frame_h
                 /\ \A c \in Coords(locals.frame_w, locals.frame_h) :
                       fs.files[k].img.px[c][4] = 0

----------------------------------------------------------------------------
(* Claims about the anchor points found by pixel analysis *)

AnchorReturned == cmd = "find_anchor_points" /\ pc = "return"

(* the pixels with alpha >= 128 *)
OpaquePixels(img) == {c \in Coords(img.w, img.h) : img.px[c][4] >= 128}

RowHasOpaque(img, y) == \E c \in OpaquePixels(img) : c[2] = y

(* C26: for an image with a pixel of alpha >= 128 find_anchor_points       *)
(* returns 0 <= head_y <= feet_y <= height - 1, both rows holding such a   *)
(* pixel (so both lie in the alpha-derived content bbox), and a centroid   *)
(* with 0 <= center_x <= width - 1 and 0 <= center_y <= height - 1; it     *)
(* returns None exactly when no pixel has alpha >= 128                     *)
C26_AnchorPointsInsideContent ==
    AnchorReturned =>
        /\ (ret = None) <=> (OpaquePixels(args.img) = {})
        /\ ret # None =>
              LET pts == ret[1]
                  bbox == GetBBox(OpaquePixels(args.img))
              IN  /\ 0 <= pts.head_y
                  /\ pts.head_y <= pts.feet_y
                  /\ pts.feet_y <= args.img.h - 1
                  /\ RowHasOpaque(args.img, pts.head_y)
                  /\ RowHasOpaque(args.img, pts.feet_y)
                  /\ bbox[2] <= pts.head_y
                  /\ pts.feet_y < bbox[4]
                  /\ pts.center_x[2] > 0
                  /\ 0 <= pts.center_x[1]
                  /\ pts.center_x[1] <= (args.img.w - 1) * pts.center_x[2]
                  /\ pts.center_y[2] > 0
                  /\ 0 <= pts.center_y[1]
                  /\ pts.center_y[1] <= (args.img.h - 1) * pts.center_y[2]

(* a stray opaque pixel in the top row and in the bottom row, a full row   *)
(* between them: head and feet are both the full row, inside the bbox      *)
C26_Witness ==
    /\ AnchorReturned
    /\ ret # None
    /\ RowHasOpaque(args.img, 0)
    /\ RowHasOpaque(args.img, args.img.h - 1)
    /\ ret[1].head_y = 1
    /\ ret[1].feet_y = 1
    /\ ret[1].center_x[1] > 0

----------------------------------------------------------------------------
(* Claims about the auto-derived canvas *)

PlacedContentW == PlacedBBox[3] - PlacedBBox[1]

PlacedContentH == PlacedBBox[4] - PlacedBBox[2]

(* C27 as stated: with the canvas size auto-derived (floor of 1.1 times    *)
(* the largest content width and height) and the bbox strategy, for each   *)
(* of the policies center, bottom and top the pasted content rectangle     *)
(* [paste_x, paste_x + content_w) x [paste_y, paste_y + content_h) lies    *)
(* inside the canvas for every frame                                       *)
C27_AutoCanvasHoldsContent ==
    (AlignPlaced /\ args.canvas = <<None, None>> /\ Placed.used_mode = "bbox") =>
        /\ 0 <= Placed.paste_x
        /\ Placed.paste_x + PlacedContentW <= locals.canvas_w
        /\ 0 <= Placed.paste_y
        /\ Placed.paste_y + PlacedContentH <= locals.canvas_h

----------------------------------------------------------------------------
(* Claims about aligning the frames of a content-aware cut *)

(* the cell of frame k with its background removed, as the cut sees it *)
CutCellNoBg(k) == _remove_bg(CutCellOf(k))

(* the foreground pixels of cut frame k, in the frame's own coordinates *)
CutForeground(k) ==
    LET bbox == _get_content_bbox(CutCellNoBg(k))
    IN  {<<c[1] - bbox[1], c[2] - bbox[2]>> : c \in ForegroundMask(CutCellNoBg(k), COLOR_THRESHOLD)}

(* cut frame k as align_frames loads it (no chroma key) *)
AlignLoadedCut(k) == _remove_bg(fs.files[k].img)

(* C28 as stated: for a frame written by the content-aware cut from a cell *)
(* that had a content bbox, the background removal and bbox detection of   *)
(* align_frames classify the same pixels as foreground again: the frame    *)
(* gets a content bbox and no foreground pixel of the cut frame is turned  *)
(* transparent                                                             *)
C28_CutFrameSurvivesAlign ==
    CutContentAwareWriting =>
        \A k \in 1..Len(fs.files) :
            ~CellEmpty(CutCellOf(k)) =>
                /\ _get_content_bbox(AlignLoadedCut(k)) # None
                /\ ForegroundMask(AlignLoadedCut(k), COLOR_THRESHOLD) = CutForeground(k)
                /\ \A c \in CutForeground(k) : AlignLoadedCut(k).px[c][4] >= ALPHA_FOREGROUND

----------------------------------------------------------------------------
(* Claims about what a re-encode keeps *)

(* the source of every frame of an artifact, in order *)
SourcesOf(artifact) == [k \in 1..Len(artifact.frames) |-> artifact.frames[k].src]

(* C29: every re-encode of the auto-resize loop uses the same per-frame    *)
(* duration list, loop count, quantize setting and the same number of      *)
(* frames in the same order as the first encode; only the pixel dimensions *)
(* change, and the frame count and total duration handed to the validator  *)
(* are unchanged by resizing                                               *)
C29_ReEncodeKeepsAllButSize ==
    /\ [][ReEncodes =>
             /\ fs'.files[1].durations = fs.files[1].durations
             /\ fs'.files[1].loop = fs.files[1].loop
             /\ fs'.files[1].quantized = fs.files[1].quantized
             /\ SourcesOf(fs'.files[1]) = SourcesOf(fs.files[1])
             /\ locals'.num_frames = locals.num_frames
             /\ locals'.total_ms = locals.total_ms]_vars
    /\ [](CombineEncoded =>
             /\ fs.files[1].loop = args.loop
             /\ fs.files[1].quantized = args.quantize
             /\ SourcesOf(fs.files[1]) = SortedNames(DOMAIN args.dir)
             /\ Len(fs.files[1].durations) = Len(fs.files[1].frames)
             /\ locals.num_frames = Cardinality(DOMAIN args.dir)
             /\ locals.total_ms = Sum(fs.files[1].durations))
    /\ []((CombineEncoded /\ pc = "done") =>
             /\ stderr[Len(stderr)].ok_frames =
                   (5 <= Cardinality(DOMAIN args.dir) /\ Cardinality(DOMAIN args.dir) <= 20)
             /\ stderr[Len(stderr)].ok_dur = (Sum(fs.files[1].durations) <= 4000))

(* an eased, quantized animation of five frames was re-encoded three times *)
(* at smaller sizes and reported                                           *)
C29_Witness ==
    /\ CombineEncoded
    /\ pc = "done"
    /\ locals.encodes = 1 + MAX_RESIZE_ATTEMPTS
    /\ args.quantize
    /\ args.timing = [kind |-> "preset", name |-> "ease-in"]
    /\ Len(fs.files[1].frames) = 5
    /\ fs.files[1].durations[1] > fs.files[1].durations[5]
    /\ fs.files[1].frames[1].w < locals.frames[1].w

----------------------------------------------------------------------------
(* Claims about generate_animation *)

AnimationRunning == cmd = "generate_animation" /\ pc \in {"loop", "return"}

(* the calls before call k (from 1) that came back with an image *)
SavedBefore(k) == {j \in 1..(k - 1) : locals.calls[j].outcome = "image"}

(* the conditioning reference that call k should carry *)
ExpectedReference(k) ==
    IF SavedBefore(k) # {}
    THEN <<[dir |-> "out", name |-> FrameName(SetMax(SavedBefore(k)) - 1)]>>
    ELSE args.first_frame_reference

(* C30: whatever generation calls fail, every frame prompt is attempted in *)
(* index order, a frame generated for prompt i is saved as                 *)
(* frame_{i:03d}.png, the conditioning reference given for prompt i is the *)
(* most recently saved earlier frame (the seed reference when none has     *)
(* been saved yet), and the returned list holds the saved paths in         *)
(* increasing index order                                                  *)
C30_ChainSurvivesFailures ==
    AnimationRunning =>
        /\ Len(locals.calls) = locals.i
        /\ pc = "return" => Len(locals.calls) = args.num_prompts
        /\ \A k \in 1..Len(locals.calls) :
              /\ locals.calls[k].i = k - 1
              /\ locals.calls[k].reference_images = args.reference_images \o ExpectedReference(k)
              /\ (locals.calls[k].outcome = "image") <=>
                    (\E f \in 1..Len(fs.files) : fs.files[f].name = FrameName(k - 1))
        /\ Len(fs.files) = Cardinality(SavedBefore(Len(locals.calls) + 1))
        /\ pc = "return" =>
              /\ Len(ret) = Len(fs.files)
              /\ \A f \in 1..Len(ret) : ret[f] = [dir |-> "out", name |-> fs.files[f].name]
              /\ \A f \in 1..Len(ret) :
                    \E k \in SavedBefore(args.num_prompts + 1) :
                       /\ ret[f].name = FrameName(k - 1)
                       /\ Cardinality(SavedBefore(k)) = f - 1

(* three prompts, the second call failed: the third call was given         *)
(* frame_000.png and the list returned is frame_000.png, frame_002.png     *)
C30_Witness ==
    /\ AnimationRunning
    /\ pc = "return"
    /\ args.num_prompts = 3
    /\ locals.calls[1].outcome = "image"
    /\ locals.calls[2].outcome = "raise"
    /\ locals.calls[3].outcome = "image"
    /\ locals.calls[3].reference_images = args.reference_images \o <<FramePath(0)>>
    /\ ret = <<FramePath(0), FramePath(2)>>

====
